---- MODULE Spec2Model ----
(***************************************************************************)
(* LuminS (lms): synchronize / copy / remove of directory trees.           *)
(* The model follows src/src/lumins/core.rs and src/src/lumins/file_ops.rs *)
(* over a small explicit filesystem: two roots ("src", "dest"), each a map *)
(* from relative paths to entries (none, file with its bytes, dir, symlink *)
(* with its target).  `remove` works on the "dest" root as its target.     *)
(***************************************************************************)
EXTENDS Naturals, Sequences, FiniteSets, TLC

VARIABLES
    fs,              \* fs[root][path] : the entry stored at root/path
    noperm,          \* set of <<root, path>> whose mode is 000
    op,              \* the public operation that is running
    flags,           \* the HashSet<Flag> given to the operation
    pc,              \* the position of the operation in its body
    src_file_sets,   \* result of get_all_files(src)   (core.rs:29,102)
    dest_file_sets,  \* result of get_all_files(dest)  (core.rs:35,136)
    pending,         \* items of the current for_each / for loop not yet taken
    running,         \* items whose closure body is executing
    dirs_to_delete,  \* the sorted Vec<&Dir> of core.rs:78,151 still to iterate
    done,            \* per-entry operations completed in this run, with outcome
    removed,         \* directories whose remove of the last phase completed, in order
    run,             \* 1 for the first invocation, 2 for an immediate second one
    fs0,             \* the filesystem when the current invocation was entered
    noperm0,         \* the mode-000 entries when the first invocation was entered
    PROGRESS_BAR,    \* position of the shared progress bar
    result,          \* what the operation returned: "none" | "Ok" | "Err"
    main             \* the command line's rm: its targets, the next one, the
                     \* Results so far and the exit status (main.rs, parse.rs)

vars == <<fs, noperm, op, flags, pc, src_file_sets, dest_file_sets, pending,
          running, dirs_to_delete, done, removed, run, fs0, noperm0,
          PROGRESS_BAR, result, main>>

---------------------------------------------------------------------------
(* Bounds of the model *)

\* most entries below the two roots together in an initial state
MaxEntries == 3
\* with permission faults: most entries below the two roots together
MaxFaultEntries == 2
\* most mode-000 entries in an initial state with permission faults
MaxNoPerm == 1
\* threads of the rayon pool that run a parallel for_each
Workers == 2
\* most TARGET arguments of rm
MaxTargets == 3
\* most entries of a set handed directly to copy_files or delete_files
MaxInput == 2

---------------------------------------------------------------------------
(* The universe of paths, contents and targets *)

Roots == {"src", "dest"}

\* the relative paths of the worked example: file.txt, subdir, old.txt
ScenarioPaths == { <<"file.txt">>, <<"subdir">>, <<"old.txt">> }

\* relative paths, as sequences of components: a, a/b, a/b/c, d, and those of
\* the worked example
Paths == { <<"a">>, <<"a", "b">>, <<"a", "b", "c">>, <<"d">> } \cup ScenarioPaths

\* the root itself is the empty relative path (Dir::from(""), core.rs:154)
RootPath == << >>

AllPaths == Paths \cup {RootPath}

\* file contents as byte strings; two of equal length, one of another length
Contents == { << >>, <<0>>, <<1>> }

\* symlink targets, kept verbatim; they name nothing inside the two trees
Targets == { <<"t1">>, <<"t2">> }

\* what a target names outside the two trees: t1 a directory that cannot be
\* written to, t2 nothing (a link to it dangles)
TargetKind(target) == IF target = <<"t1">> THEN "dir" ELSE "none"

None == [kind |-> "none", data |-> << >>]
DirE == [kind |-> "dir", data |-> << >>]
FileE(c) == [kind |-> "file", data |-> c]
LinkE(t) == [kind |-> "symlink", data |-> t]

Entries == {None, DirE} \cup {FileE(c) : c \in Contents} \cup {LinkE(t) : t \in Targets}

Parent(p) == SubSeq(p, 1, Len(p) - 1)

IsPrefix(q, p) == Len(q) <= Len(p) /\ SubSeq(p, 1, Len(q)) = q

ProperPrefixes(p) == { q \in AllPaths : IsPrefix(q, p) /\ q # p }

Children(p) == { q \in Paths : Len(q) = Len(p) + 1 /\ IsPrefix(p, q) }

\* a tree: whatever exists has a directory as its parent; the root is a
\* directory or is missing
WellFormed(t) ==
    /\ t[RootPath] \in {None, DirE}
    /\ \A p \in Paths : t[p] # None => t[Parent(p)] = DirE

Existing(t) == { p \in Paths : t[p] # None }

\* sets of paths closed under taking the parent; the enumerated trees are
\* built on a, a/b, a/b/c and d
Shapes ==
    { E \in SUBSET (Paths \ ScenarioPaths) : \A p \in E : Parent(p) = RootPath \/ Parent(p) \in E }

\* the trees whose existing paths are exactly E
TreesOf(E) ==
    { [p \in AllPaths |-> IF p = RootPath THEN DirE ELSE IF p \in E THEN k[p] ELSE None] :
        k \in { k \in [E -> Entries \ {None}] :
                  \A p \in E : (\E c \in E : Parent(c) = p) => k[p] = DirE } }

AbsentTree == [p \in AllPaths |-> None]

\* every well-formed tree with at most n entries below the root
Trees(n) == {AbsentTree} \cup UNION { TreesOf(E) : E \in { X \in Shapes : Cardinality(X) <= n } }

---------------------------------------------------------------------------
(* The filesystem calls the entry types make (std::fs)                     *)
(* t is the tree of one root, P the set of its mode-000 paths.  Every call *)
(* gives [ok, t]: whether it succeeded and the tree it leaves.             *)

\* every directory on the way to p exists and can be traversed
Accessible(t, P, p) == \A q \in ProperPrefixes(p) : t[q] = DirE /\ q \notin P

\* fs::remove_file: unlinks a file or a symlink
remove_file(t, P, p) ==
    IF Accessible(t, P, p) /\ t[p].kind \in {"file", "symlink"}
    THEN [ok |-> TRUE, t |-> [t EXCEPT ![p] = None]]
    ELSE [ok |-> FALSE, t |-> t]

\* fs::remove_dir_all: removes the directory with everything below it
remove_dir_all(t, P, p) ==
    IF Accessible(t, P, p) /\ t[p] = DirE
    THEN [ok |-> TRUE, t |-> [q \in AllPaths |-> IF IsPrefix(p, q) THEN None ELSE t[q]]]
    ELSE [ok |-> FALSE, t |-> t]

\* fs::remove_dir: removes an empty directory
remove_dir(t, P, p) ==
    IF /\ Accessible(t, P, p)
       /\ t[p] = DirE
       /\ \A c \in Children(p) : t[c] = None
    THEN [ok |-> TRUE, t |-> [t EXCEPT ![p] = None]]
    ELSE [ok |-> FALSE, t |-> t]

\* fs::create_dir: the one directory, its parent being there; fails on an
\* occupied path
create_dir(t, P, p) ==
    IF Accessible(t, P, p) /\ t[p] = None
    THEN [ok |-> TRUE, t |-> [t EXCEPT ![p] = DirE]]
    ELSE [ok |-> FALSE, t |-> t]

\* fs::create_dir_all: creates p and every missing component before it;
\* an existing directory is not an error

create_dir_all(t, P, p) ==
    IF /\ \A q \in ProperPrefixes(p) : t[q] = None \/ (t[q] = DirE /\ q \notin P)
       /\ \/ t[p] \in {None, DirE}
          \/ t[p].kind = "symlink" /\ TargetKind(t[p].data) = "dir"
    THEN [ok |-> TRUE,
          t |-> [q \in AllPaths |-> IF IsPrefix(q, p) /\ t[q] = None THEN DirE ELSE t[q]]]
    ELSE [ok |-> FALSE, t |-> t]

\* a link made to point at what the target names when taken from the
\* destination root, instead of holding the target as given
symlink_resolved(t, P, target, p) ==
    IF Accessible(t, P, p) /\ t[p] = None
    THEN [ok |-> TRUE, t |-> [t EXCEPT ![p] = LinkE(<<"mnt", "backup", "dest">> \o Parent(p) \o target)]]
    ELSE [ok |-> FALSE, t |-> t]

\* a link creation that replaces a link already at the path, as ln -sf does
symlink_replacing(t, P, target, p) ==
    IF Accessible(t, P, p) /\ (t[p] = None \/ t[p].kind = "symlink")
    THEN [ok |-> TRUE, t |-> [t EXCEPT ![p] = LinkE(target)]]
    ELSE [ok |-> FALSE, t |-> t]

\* std::os::unix::fs::symlink: creates a new link, fails on an occupied path
symlink(t, P, target, p) ==
    IF Accessible(t, P, p) /\ t[p] = None
    THEN [ok |-> TRUE, t |-> [t EXCEPT ![p] = LinkE(target)]]
    ELSE [ok |-> FALSE, t |-> t]

\* can the file at p be opened for reading
Readable(t, P, p) == Accessible(t, P, p) /\ t[p].kind = "file" /\ p \notin P

\* a copy that creates or truncates the destination before it opens the
\* source: a source that cannot be read leaves an empty destination file
fs_copy_dest_first(ts, Ps, td, Pd, p) ==
    IF ~Accessible(td, Pd, p)
    THEN [ok |-> FALSE, t |-> td]
    ELSE IF td[p] = None \/ (td[p].kind = "file" /\ p \notin Pd)
    THEN (IF Readable(ts, Ps, p)
          THEN [ok |-> TRUE, t |-> [td EXCEPT ![p] = FileE(ts[p].data)]]
          ELSE [ok |-> FALSE, t |-> [td EXCEPT ![p] = FileE(<< >>)]])
    ELSE [ok |-> Readable(ts, Ps, p) /\ td[p].kind = "symlink" /\ TargetKind(td[p].data) = "none",
          t |-> td]

\* fs::copy(from, to): reads the source file and creates or truncates the
\* destination file.  A destination that is a symlink is followed: through a
\* dangling link the bytes land at the link's target, outside the tree, and
\* the link stays; a link to a directory cannot be opened for writing.
fs_copy(ts, Ps, td, Pd, p) ==
    IF ~Readable(ts, Ps, p) \/ ~Accessible(td, Pd, p)
    THEN [ok |-> FALSE, t |-> td]
    ELSE IF td[p] = None \/ (td[p].kind = "file" /\ p \notin Pd)
    THEN [ok |-> TRUE, t |-> [td EXCEPT ![p] = FileE(ts[p].data)]]
    ELSE [ok |-> td[p].kind = "symlink" /\ TargetKind(td[p].data) = "none", t |-> td]

---------------------------------------------------------------------------
(* Entries and collections of a scan *)

\* a Symlink whose equality and hash leave the target out
Symlink_keyed_by_path(path, target) == [type |-> "symlink", path |-> path, size |-> 0, target |-> << >>]

\* a File whose equality and hash leave the size out
File_keyed_by_path(path, size) == [type |-> "file", path |-> path, size |-> 0, target |-> << >>]

File(path, size) == [type |-> "file", path |-> path, size |-> size, target |-> << >>]
Dir(path) == [type |-> "dir", path |-> path, size |-> 0, target |-> << >>]
Symlink(path, target) == [type |-> "symlink", path |-> path, size |-> 0, target |-> target]

FileSets(files, dirs, symlinks) ==
    [ok |-> TRUE, files |-> files, dirs |-> dirs, symlinks |-> symlinks]

\* the Err of get_all_files; also the value of a scan not made
NoSets == [ok |-> FALSE, files |-> {}, dirs |-> {}, symlinks |-> {}]

\* where the two roots lie: absolute paths of different lengths
Location(r) == IF r = "src" THEN <<"tmp", "src">> ELSE <<"mnt", "backup", "dest">>

\* the place below the root at `base` that the absolute path names
Below(base, path) == SubSeq(path, Len(base) + 1, Len(path))

\* the entry the absolute path names, t being the tree of the root at `base`
At(t, base, path) == t[Below(base, path)]

\* a read_dir that the mode bits do not stop, as for a privileged user
CanReadDir_any_mode(t, P, p) == t[p] = DirE

\* read_dir succeeds on the directory at p
CanReadDir(t, P, p) == Accessible(t, P, p) /\ t[p] = DirE /\ p \notin P

\* the metadata read through the link, as fs::metadata gives it: a link has
\* the type of what its target names, and none when it dangles
metadata_following(t, base, file) ==
    IF At(t, base, file).kind = "symlink"
    THEN (IF TargetKind(At(t, base, file).data) = "none" THEN "err"
          ELSE TargetKind(At(t, base, file).data))
    ELSE At(t, base, file).kind

\* DirEntry::metadata: the type of the entry itself, a link not followed
metadata(t, base, file) == At(t, base, file).kind

\* the entry's path kept as read_dir gives it, the root's location included
strip_prefix_kept(path, base) == path

\* path.strip_prefix(base): the components of path after those of base
strip_prefix(path, base) == SubSeq(path, Len(base) + 1, Len(path))

\* the scan with the Err of a subdirectory passed on by `?` instead of being
\* logged and skipped (file_ops.rs:532-535)
RECURSIVE get_all_files_helper_propagating(_, _, _, _)
get_all_files_helper_propagating(t, P, src, base) ==
    IF ~CanReadDir(t, P, Below(base, src))
    THEN NoSets
    ELSE LET entries == { src \o <<q[Len(q)]>> : q \in { c \in Children(Below(base, src)) : t[c] # None } }
             sub(e) == get_all_files_helper_propagating(t, P, e, base)
             relative_path(e) == strip_prefix(e, base)
             subdirs == { x \in entries : metadata(t, base, x) = "dir" }
         IN IF \E e \in subdirs : ~sub(e).ok
            THEN NoSets
            ELSE FileSets(
              { File(relative_path(e), Len(At(t, base, e).data)) :
                   e \in { x \in entries : metadata(t, base, x) = "file" } }
                \cup UNION { sub(e).files : e \in subdirs },
              { Dir(relative_path(e)) : e \in subdirs }
                \cup UNION { sub(e).dirs : e \in subdirs },
              { Symlink(relative_path(e), At(t, base, e).data) :
                   e \in { x \in entries : metadata(t, base, x) \notin {"dir", "file", "err"} } }
                \cup UNION { sub(e).symlinks : e \in subdirs })

\* the scan with a subdirectory inserted into dirs only after its own scan
\* succeeded (file_ops.rs:520-522 after 525 instead of before)
RECURSIVE get_all_files_helper_skipping_unreadable(_, _, _, _)
get_all_files_helper_skipping_unreadable(t, P, src, base) ==
    IF ~CanReadDir(t, P, Below(base, src))
    THEN NoSets
    ELSE LET entries == { src \o <<q[Len(q)]>> : q \in { c \in Children(Below(base, src)) : t[c] # None } }
             sub(e) == get_all_files_helper_skipping_unreadable(t, P, e, base)
             relative_path(e) == strip_prefix(e, base)
             subdirs == { x \in entries : metadata(t, base, x) = "dir" }
         IN FileSets(
              { File(relative_path(e), Len(At(t, base, e).data)) :
                   e \in { x \in entries : metadata(t, base, x) = "file" } }
                \cup UNION { sub(e).files : e \in subdirs },
              { Dir(relative_path(e)) : e \in { x \in subdirs : sub(x).ok } }
                \cup UNION { sub(e).dirs : e \in subdirs },
              { Symlink(relative_path(e), At(t, base, e).data) :
                   e \in { x \in entries : metadata(t, base, x) \notin {"dir", "file", "err"} } }
                \cup UNION { sub(e).symlinks : e \in subdirs })

\* src is the directory to traverse and base the root of the scan, both as
\* absolute paths; t and P are the tree and the mode-000 paths of that root
RECURSIVE get_all_files_helper(_, _, _, _)
get_all_files_helper(t, P, src, base) ==
    IF ~CanReadDir(t, P, Below(base, src))
    THEN NoSets
    ELSE LET entries == { src \o <<q[Len(q)]>> : q \in { c \in Children(Below(base, src)) : t[c] # None } }
             sub(e) == get_all_files_helper(t, P, e, base)
             relative_path(e) == strip_prefix(e, base)
             subdirs == { x \in entries : metadata(t, base, x) = "dir" }
         IN FileSets(
              { File(relative_path(e), Len(At(t, base, e).data)) :
                   e \in { x \in entries : metadata(t, base, x) = "file" } }
                \cup UNION { sub(e).files : e \in subdirs },
              { Dir(relative_path(e)) : e \in subdirs }
                \cup UNION { sub(e).dirs : e \in subdirs },
              { Symlink(relative_path(e), At(t, base, e).data) :
                   e \in { x \in entries : metadata(t, base, x) \notin {"dir", "file", "err"} } }
                \cup UNION { sub(e).symlinks : e \in subdirs })

get_all_files(t, P, src) == get_all_files_helper(t, P, src, src)

---------------------------------------------------------------------------
(* Hashes of file contents *)

\* a checksum that looks at the number of bytes only
seahash_length_only(contents) == Len(contents)

\* seahash::hash: an order-sensitive checksum of the bytes in one machine word
RECURSIVE seahash(_)
seahash(contents) ==
    IF contents = << >> THEN 1
    ELSE (seahash(SubSeq(contents, 1, Len(contents) - 1)) * 3
            + contents[Len(contents)] + 1) % 65536

\* Blake2b digest of the bytes, as a byte vector
blake2b(contents) == <<Len(contents)>> \o [i \in 1..Len(contents) |-> (contents[i] + 7 * i) % 256]

hash_file(t, P, file_to_hash) ==
    IF Readable(t, P, file_to_hash.path)
    THEN <<"Some", seahash(t[file_to_hash.path].data)>>
    ELSE <<"None">>

hash_file_secure(t, P, file_to_hash) ==
    IF Readable(t, P, file_to_hash.path)
    THEN <<"Some", blake2b(t[file_to_hash.path].data)>>
    ELSE <<"None">>

---------------------------------------------------------------------------
(* Operations on one entry.  F is the filesystem (both roots), N the set of *)
(* mode-000 <<root, path>>; each gives [ok, t]: the outcome and the tree of *)
(* the root it wrote to.                                                    *)

NoPermOf(N, r) == { p \in AllPaths : <<r, p>> \in N }

\* FileOps::copy of File, Dir and Symlink, as called by copy_file
copy_file(F, N, file_to_copy, src, dest) ==
    CASE file_to_copy.type = "file" ->
           fs_copy(F[src], NoPermOf(N, src), F[dest], NoPermOf(N, dest), file_to_copy.path)
      [] file_to_copy.type = "dir" ->
           create_dir_all(F[dest], NoPermOf(N, dest), file_to_copy.path)
      [] file_to_copy.type = "symlink" ->
           symlink(F[dest], NoPermOf(N, dest), file_to_copy.target, file_to_copy.path)

\* FileOps::remove of File, Dir and Symlink, as called by delete_files
remove_entry(F, N, file, location) ==
    IF file.type = "dir"
    THEN remove_dir(F[location], NoPermOf(N, location), file.path)
    ELSE remove_file(F[location], NoPermOf(N, location), file.path)

\* the comparison with the destination hashed by hash_file in Secure mode
\* too: a Blake2b digest set against a seahash word
same_hash_mixed(F, N, file_to_compare, src, dest, fl) ==
    LET dest_file_hash == hash_file(F[dest], NoPermOf(N, dest), file_to_compare)
    IN IF "Secure" \in fl
       THEN LET src_file_hash_secure == hash_file_secure(F[src], NoPermOf(N, src), file_to_compare)
                dest_file_hash_bytes == IF dest_file_hash = <<"None">> THEN <<"None">>
                                        ELSE <<"Some", <<dest_file_hash[2]>>>>
            IN src_file_hash_secure # <<"None">> /\ src_file_hash_secure = dest_file_hash_bytes
       ELSE LET src_file_hash == hash_file(F[src], NoPermOf(N, src), file_to_compare)
            IN src_file_hash # <<"None">> /\ src_file_hash = dest_file_hash

\* do the two files hash alike under the chosen hash; a source hash of None
\* is never alike
same_hash(F, N, file_to_compare, src, dest, fl) ==
    IF "Secure" \in fl
    THEN LET src_file_hash_secure == hash_file_secure(F[src], NoPermOf(N, src), file_to_compare)
             dest_file_hash_secure == hash_file_secure(F[dest], NoPermOf(N, dest), file_to_compare)
         IN src_file_hash_secure # <<"None">> /\ src_file_hash_secure = dest_file_hash_secure
    ELSE LET src_file_hash == hash_file(F[src], NoPermOf(N, src), file_to_compare)
             dest_file_hash == hash_file(F[dest], NoPermOf(N, dest), file_to_compare)
         IN src_file_hash # <<"None">> /\ src_file_hash = dest_file_hash

\* compare_and_copy_file with the test of file_ops.rs:261,274 inverted: it
\* copies when the hashes are alike
compare_and_copy_file_inverted(F, N, file_to_compare, src, dest, fl) ==
    IF ~same_hash(F, N, file_to_compare, src, dest, fl)
    THEN [same |-> FALSE, ok |-> FALSE, t |-> F[dest]]
    ELSE LET c == copy_file(F, N, file_to_compare, src, dest)
         IN [same |-> TRUE, ok |-> c.ok, t |-> c.t]

\* compare_and_copy_file leaving alone a pair of which a hash is missing
compare_and_copy_file_skipping_unhashed(F, N, file_to_compare, src, dest, fl) ==
    IF \/ same_hash(F, N, file_to_compare, src, dest, fl)
       \/ ~Readable(F[src], NoPermOf(N, src), file_to_compare.path)
       \/ ~Readable(F[dest], NoPermOf(N, dest), file_to_compare.path)
    THEN [same |-> TRUE, ok |-> TRUE, t |-> F[dest]]
    ELSE LET c == copy_file(F, N, file_to_compare, src, dest)
         IN [same |-> FALSE, ok |-> c.ok, t |-> c.t]

\* [same, ok, t]: were the hashes alike; if not, the outcome of the copy
compare_and_copy_file(F, N, file_to_compare, src, dest, fl) ==
    IF same_hash(F, N, file_to_compare, src, dest, fl)
    THEN [same |-> TRUE, ok |-> TRUE, t |-> F[dest]]
    ELSE LET c == copy_file(F, N, file_to_compare, src, dest)
         IN [same |-> FALSE, ok |-> c.ok, t |-> c.t]

\* all orders of a set, as sequences
Perms(S) ==
    { s \in [1..Cardinality(S) -> S] : \A i, j \in 1..Cardinality(S) : s[i] = s[j] => i = j }

\* path().components().count()
Count(file) == Len(file.path)

\* the comparator with its operands exchanged: a's count against b's
compare_counts_ascending(a, b) ==
    IF Count(a) < Count(b) THEN "Less"
    ELSE IF Count(a) = Count(b) THEN "Equal" ELSE "Greater"

\* the comparator given to par_sort_unstable_by: b's count against a's
compare_counts(a, b) ==
    IF Count(b) < Count(a) THEN "Less"
    ELSE IF Count(b) = Count(a) THEN "Equal" ELSE "Greater"

\* one step of the sort: x goes in front of the first element it is Less than
RECURSIVE insert(_, _)
insert(x, s) ==
    IF s = << >> THEN <<x>>
    ELSE IF compare_counts(x, Head(s)) = "Less" THEN <<x>> \o s
    ELSE <<Head(s)>> \o insert(x, Tail(s))

RECURSIVE sort_by(_)
sort_by(v) == IF v = << >> THEN << >> ELSE insert(Head(v), sort_by(Tail(v)))

\* the vector collected from the hash set and left as it came
sort_files_unsorted(files_to_sort) == Perms(files_to_sort)

\* the vectors sort_files can return: the hash set is collected in any order,
\* and the sort, being unstable, may leave equal counts in any order
sort_files(files_to_sort) == { sort_by(v) : v \in Perms(files_to_sort) }

---------------------------------------------------------------------------
(* The three public operations as programs: the calls of each body in order *)

Ops == {"synchronize", "copy", "remove"}

\* the flags the core reads (Verbose only switches logging on)
Flags == {"NoDelete", "Secure", "Sequential"}

\* synchronize with the NoDelete test of core.rs:41 lost
synchronize_always_delete(fl) ==
    <<"scan_src", "scan_dest", "delete_symlinks", "delete_files",
      "copy_dirs", "copy_symlinks", "copy_files", "compare", "delete_dirs", "return">>

\* synchronize with the directories removed together with the files and
\* symlinks, before the copies
synchronize_dirs_deleted_early(fl) ==
    <<"scan_src", "scan_dest">>
    \o (IF "NoDelete" \notin fl THEN <<"delete_symlinks", "delete_files", "delete_dirs">> ELSE << >>)
    \o <<"copy_dirs", "copy_symlinks", "copy_files", "compare", "return">>

\* synchronize with the call of compare_and_copy_files (core.rs:61,72) lost
synchronize_without_compare(fl) ==
    <<"scan_src", "scan_dest">>
    \o (IF "NoDelete" \notin fl THEN <<"delete_symlinks", "delete_files">> ELSE << >>)
    \o <<"copy_dirs", "copy_symlinks", "copy_files">>
    \o (IF "NoDelete" \notin fl THEN <<"delete_dirs">> ELSE << >>)
    \o <<"return">>

\* synchronize with the three copy calls in the opposite order
synchronize_files_copied_first(fl) ==
    <<"scan_src", "scan_dest">>
    \o (IF "NoDelete" \notin fl THEN <<"delete_symlinks", "delete_files">> ELSE << >>)
    \o <<"copy_files", "copy_symlinks", "copy_dirs", "compare">>
    \o (IF "NoDelete" \notin fl THEN <<"delete_dirs">> ELSE << >>)
    \o <<"return">>

\* synchronize with the deletions of files and symlinks made after the
\* copies, next to the deletion of the directories
synchronize_deleting_last(fl) ==
    <<"scan_src", "scan_dest", "copy_dirs", "copy_symlinks", "copy_files", "compare">>
    \o (IF "NoDelete" \notin fl THEN <<"delete_symlinks", "delete_files", "delete_dirs">> ELSE << >>)
    \o <<"return">>

\* synchronize that scans dest only after it has created the directories
\* of src
synchronize_scanning_dest_late(fl) ==
    <<"scan_src", "copy_dirs", "scan_dest">>
    \o (IF "NoDelete" \notin fl THEN <<"delete_symlinks", "delete_files">> ELSE << >>)
    \o <<"copy_symlinks", "copy_files", "compare">>
    \o (IF "NoDelete" \notin fl THEN <<"delete_dirs">> ELSE << >>)
    \o <<"return">>

\* core.rs:24-83
synchronize(fl) ==
    <<"scan_src", "scan_dest">>
    \o (IF "NoDelete" \notin fl THEN <<"delete_symlinks", "delete_files">> ELSE << >>)
    \o <<"copy_dirs", "copy_symlinks", "copy_files", "compare">>
    \o (IF "NoDelete" \notin fl THEN <<"delete_dirs">> ELSE << >>)
    \o <<"return">>

\* copy with the order synchronize uses: directories, symlinks, files
copy_symlinks_before_files(fl) ==
    <<"scan_src", "copy_dirs", "copy_symlinks", "copy_files", "return">>

\* copy with a scan of the destination as well, as synchronize makes it
copy_scanning_dest(fl) ==
    <<"scan_src", "scan_dest", "copy_dirs", "copy_files", "copy_symlinks", "return">>

\* core.rs:97-119
copy(fl) == <<"scan_src", "copy_dirs", "copy_files", "copy_symlinks", "return">>

\* core.rs:131-160; the target is the root "dest" and its scan dest_file_sets
remove(fl) == <<"scan_dest", "delete_files", "delete_symlinks", "delete_dirs", "return">>

\* the batch functions called on their own, as the tests of file_ops.rs call
\* them: one call on a set the caller built, which need not come from a scan
Calls == {"copy_files", "delete_files"}

Program(o, fl) ==
    CASE o = "synchronize" -> synchronize(fl)
      [] o = "copy" -> copy(fl)
      [] o = "remove" -> remove(fl)
      [] o = "copy_files" -> <<"copy_files", "return">>
      [] o = "delete_files" -> <<"delete_files", "return">>

\* the call the operation is at; "exit" once it has returned
Phase == IF pc = 0 THEN "exit" ELSE Program(op, flags)[pc]

NextPhase == IF pc = 0 \/ pc = Len(Program(op, flags)) THEN "exit" ELSE Program(op, flags)[pc + 1]

\* phases that hand a set to copy_files / delete_files / compare_and_copy_files
\* (or to their _sequential twins)
SetPhases ==
    {"delete_symlinks", "delete_files", "copy_dirs", "copy_symlinks", "copy_files", "compare"}

Task(act, file) == [act |-> act, file |-> file]

\* the entries each call is given, with copy handing its files to
\* compare_and_copy_files as synchronize does for the files of both trees
Items_copy_compares(o, phase, S, D) ==
    IF o = "synchronize"
    THEN CASE phase = "delete_symlinks" -> { Task("remove", f) : f \in D.symlinks \ S.symlinks }
           [] phase = "delete_files" -> { Task("remove", f) : f \in D.files \ S.files }
           [] phase = "copy_dirs" -> { Task("copy", f) : f \in S.dirs \ D.dirs }
           [] phase = "copy_symlinks" -> { Task("copy", f) : f \in S.symlinks \ D.symlinks }
           [] phase = "copy_files" -> { Task("copy", f) : f \in S.files \ D.files }
           [] phase = "compare" -> { Task("compare", f) : f \in S.files \cap D.files }
           [] OTHER -> {}
    ELSE IF o = "copy"
    THEN CASE phase = "copy_dirs" -> { Task("copy", f) : f \in S.dirs }
           [] phase = "copy_files" -> { Task("compare", f) : f \in S.files }
           [] phase = "copy_symlinks" -> { Task("copy", f) : f \in S.symlinks }
           [] OTHER -> {}
    ELSE CASE phase = "delete_files" -> { Task("remove", f) : f \in D.files }
           [] phase = "delete_symlinks" -> { Task("remove", f) : f \in D.symlinks }
           [] OTHER -> {}

\* the entries each call is given: S and D are the scans of src and dest.
\* A batch function called on its own is given the whole set it was handed
\* (S for copy_files, D for delete_files): one closure body per entry.
Items(o, phase, S, D) ==
    IF o = "copy_files"
    THEN (IF phase = "copy_files"
          THEN { Task("copy", f) : f \in S.files \cup S.dirs \cup S.symlinks }
          ELSE {})
    ELSE IF o = "delete_files"
    THEN (IF phase = "delete_files"
          THEN { Task("remove", f) : f \in D.files \cup D.dirs \cup D.symlinks }
          ELSE {})
    ELSE IF o = "synchronize"
    THEN CASE phase = "delete_symlinks" -> { Task("remove", f) : f \in D.symlinks \ S.symlinks }
           [] phase = "delete_files" -> { Task("remove", f) : f \in D.files \ S.files }
           [] phase = "copy_dirs" -> { Task("copy", f) : f \in S.dirs \ D.dirs }
           [] phase = "copy_symlinks" -> { Task("copy", f) : f \in S.symlinks \ D.symlinks }
           [] phase = "copy_files" -> { Task("copy", f) : f \in S.files \ D.files }
           [] phase = "compare" -> { Task("compare", f) : f \in S.files \cap D.files }
           [] OTHER -> {}
    ELSE IF o = "copy"
    THEN CASE phase = "copy_dirs" -> { Task("copy", f) : f \in S.dirs }
           [] phase = "copy_files" -> { Task("copy", f) : f \in S.files }
           [] phase = "copy_symlinks" -> { Task("copy", f) : f \in S.symlinks }
           [] OTHER -> {}
    ELSE CASE phase = "delete_files" -> { Task("remove", f) : f \in D.files }
           [] phase = "delete_symlinks" -> { Task("remove", f) : f \in D.symlinks }
           [] OTHER -> {}

\* the vectors of the last call with the root of remove put in front of the
\* sorted directories instead of being pushed behind them
DirsToDelete_root_first(o, S, D) ==
    IF o = "synchronize"
    THEN sort_files(D.dirs \ S.dirs)
    ELSE { <<Dir(RootPath)>> \o s : s \in sort_files(D.dirs) }

\* the vectors of the last call with the push of the root (core.rs:154-155) lost
DirsToDelete_without_root(o, S, D) ==
    IF o = "synchronize"
    THEN sort_files(D.dirs \ S.dirs)
    ELSE sort_files(D.dirs)

\* the vectors handed to the last delete_files_sequential: core.rs:77-79 for
\* synchronize, core.rs:151-157 for remove (the root is pushed after the sort)
DirsToDelete(o, S, D) ==
    IF o = "synchronize"
    THEN sort_files(D.dirs \ S.dirs)
    ELSE { s \o <<Dir(RootPath)>> : s \in sort_files(D.dirs) }

\* how many closure bodies of a call may run at once: the rayon pool for the
\* parallel functions, one thread for their _sequential twins.  copy, remove
\* and the copies and comparisons of synchronize choose by the Sequential
\* flag; the two delete_files calls of synchronize (core.rs:45-46) are made
\* before the flag is read and are always the parallel ones
Parallelism(o, phase, fl) ==
    IF "Sequential" \in fl /\ ~(o = "synchronize" /\ phase \in {"delete_symlinks", "delete_files"})
    THEN 1
    ELSE Workers

---------------------------------------------------------------------------
(* Initial states *)

\* remove has no source: its src root is left absent
InitTrees(o, n) ==
    UNION { { [r \in Roots |-> IF r = "src" THEN ts ELSE td] :
                td \in Trees(n - Cardinality(Existing(ts))) } :
            ts \in IF o = "remove" THEN {AbsentTree} ELSE Trees(n) }

\* the entries that carry mode bits: the files and directories, roots included
ModeCarriers(F) == { x \in Roots \X AllPaths : F[x[1]][x[2]].kind \in {"file", "dir"} }

\* the operation is called directly, not by main's rm; exit is the status
\* the process has exited with, "none" while it runs
NoMain == [args |-> << >>, dest |-> << >>, next |-> 0, results |-> << >>, exit |-> "none"]

\* nothing of the operation has run yet
Entered ==
    /\ main = NoMain
    /\ pc = 1
    /\ src_file_sets = NoSets
    /\ dest_file_sets = NoSets
    /\ pending = {}
    /\ running = {}
    /\ dirs_to_delete = << >>
    /\ done = {}
    /\ removed = << >>
    /\ run = 1
    /\ fs0 = fs
    /\ noperm0 = noperm
    /\ PROGRESS_BAR = 0
    /\ result = "none"

\* the operation is about to be entered on trees of up to n entries, up to k
\* of them with mode 000
InitState(n, k) ==
    /\ op \in Ops
    /\ flags \in (IF op = "synchronize" THEN SUBSET Flags ELSE SUBSET {"Sequential"})
    /\ fs \in InitTrees(op, n)
    /\ noperm \in { N \in SUBSET ModeCarriers(fs) : Cardinality(N) <= k }
    /\ Entered

\* the bytes of "abcd" and of "abce"
abcd == <<97, 98, 99, 100>>
abce == <<97, 98, 99, 101>>

\* the trees of the worked example: src = {file.txt "abcd", subdir/},
\* dest = {file.txt "abce", old.txt}, old.txt with any of the contents
ScenarioTrees ==
    { [r \in Roots |->
         [p \in AllPaths |->
            IF p = RootPath THEN DirE
            ELSE IF r = "src"
            THEN CASE p = <<"file.txt">> -> FileE(abcd)
                   [] p = <<"subdir">> -> DirE
                   [] OTHER -> None
            ELSE CASE p = <<"file.txt">> -> FileE(abce)
                   [] p = <<"old.txt">> -> FileE(c)
                   [] OTHER -> None]] : c \in Contents }

\* synchronize with default flags is about to be entered on the worked example
InitScenario ==
    /\ op = "synchronize"
    /\ flags = {}
    /\ fs \in ScenarioTrees
    /\ noperm = {}
    /\ Entered

\* every entry readable and writable
Init == InitState(MaxEntries, 0) \/ InitScenario

\* some entries with mode 000
InitFaults == InitState(MaxFaultEntries, MaxNoPerm)

\* synchronize with deletion is about to be entered on a src in which one
\* directory has mode 000, each of the two trees holding up to
\* MaxFaultEntries entries, dest readable and writable throughout
InitSkipped ==
    /\ op = "synchronize"
    /\ flags \in SUBSET {"Secure", "Sequential"}
    /\ fs \in { [r \in Roots |-> IF r = "src" THEN ts ELSE td] :
                   ts \in { t \in Trees(MaxFaultEntries) : \E p \in Paths : t[p] = DirE },
                   td \in Trees(MaxFaultEntries) }
    /\ noperm \in { {<<"src", p>>} : p \in { q \in Paths : fs["src"][q] = DirE } }
    /\ Entered

\* the sets a caller can build: entries of one type (the functions are generic
\* in one FileOps type), whether or not anything lies at their paths
InputSets ==
    LET P == Paths \ ScenarioPaths
        small(E) == { X \in SUBSET E : Cardinality(X) \in 1..MaxInput }
    IN { FileSets(X, {}, {}) : X \in small({ File(p, Len(c)) : p \in P, c \in Contents }) }
       \cup { FileSets({}, X, {}) : X \in small({ Dir(p) : p \in P }) }
       \cup { FileSets({}, {}, X) : X \in small({ Symlink(p, t) : p \in P, t \in Targets }) }

\* copy_files or delete_files is about to be called on a set of its caller's
\* making, the Sequential flag standing for the call of the _sequential twin;
\* the set is held where the core holds the scan it takes its sets from
InitCalls ==
    /\ op \in Calls
    /\ flags \in SUBSET {"Sequential"}
    /\ fs \in InitTrees(IF op = "delete_files" THEN "remove" ELSE "copy", MaxFaultEntries)
    /\ noperm = {}
    /\ main = NoMain
    /\ pc = 1
    /\ \E X \in InputSets :
         /\ src_file_sets = (IF op = "copy_files" THEN X ELSE NoSets)
         /\ dest_file_sets = (IF op = "delete_files" THEN X ELSE NoSets)
         /\ pending = Items(op, Program(op, flags)[1], src_file_sets, dest_file_sets)
    /\ running = {}
    /\ dirs_to_delete = << >>
    /\ done = {}
    /\ removed = << >>
    /\ run = 1
    /\ fs0 = fs
    /\ noperm0 = noperm
    /\ PROGRESS_BAR = 0
    /\ result = "none"

---------------------------------------------------------------------------
(* Actions *)

\* mode bits go with the entry: what was removed has none left
Prune(N, F) == { x \in N : F[x[1]][x[2]] # None }

\* the operation returns Err from a `?`
Fail ==
    /\ result' = "Err"
    /\ pc' = 0
    /\ pending' = {}

\* get_all_files(&src)? of synchronize and copy
ScanSrc ==
    /\ Phase = "scan_src"
    /\ LET S == get_all_files(fs["src"], NoPermOf(noperm, "src"), Location("src"))
       IN IF S.ok
          THEN /\ src_file_sets' = S
               /\ pc' = pc + 1
               /\ pending' = Items(op, NextPhase, S, dest_file_sets)
               /\ result' = result
          ELSE Fail /\ UNCHANGED src_file_sets
    /\ UNCHANGED <<main, fs, noperm, op, flags, dest_file_sets, running, dirs_to_delete,
                   done, removed, run, fs0, noperm0, PROGRESS_BAR>>

\* get_all_files(&dest)? of synchronize, get_all_files(&target)? of remove
ScanDest ==
    /\ Phase = "scan_dest"
    /\ LET D == get_all_files(fs["dest"], NoPermOf(noperm, "dest"), Location("dest"))
       IN IF D.ok
          THEN /\ dest_file_sets' = D
               /\ pc' = pc + 1
               /\ pending' = Items(op, NextPhase, src_file_sets, D)
               /\ result' = result
          ELSE Fail /\ UNCHANGED dest_file_sets
    /\ UNCHANGED <<main, fs, noperm, op, flags, src_file_sets, running, dirs_to_delete,
                   done, removed, run, fs0, noperm0, PROGRESS_BAR>>

\* a thread takes the next entry of a set and enters the closure body
TakeItem(task) ==
    /\ Phase \in SetPhases
    /\ task \in pending
    /\ Cardinality(running) < Parallelism(op, Phase, flags)
    /\ pending' = pending \ {task}
    /\ running' = running \cup {task}
    /\ UNCHANGED <<main, fs, noperm, op, flags, pc, src_file_sets, dest_file_sets,
                   dirs_to_delete, done, removed, run, fs0, noperm0, PROGRESS_BAR, result>>

\* the directories handed to the parallel delete_files instead: a thread takes
\* the next directory while others are still being removed
TakeDir_parallel ==
    /\ Phase = "delete_dirs"
    /\ Cardinality(running) < Parallelism(op, Phase, flags)
    /\ Len(removed) + Cardinality(running) < Len(dirs_to_delete)
    /\ running' = running \cup {Task("remove", dirs_to_delete[Len(removed) + Cardinality(running) + 1])}
    /\ UNCHANGED <<main, fs, noperm, op, flags, pc, src_file_sets, dest_file_sets, pending,
                   dirs_to_delete, done, removed, run, fs0, noperm0, PROGRESS_BAR, result>>

\* the for loop of delete_files_sequential takes the next directory of the vector
TakeDir ==
    /\ Phase = "delete_dirs"
    /\ running = {}
    /\ Len(removed) < Len(dirs_to_delete)
    /\ running' = {Task("remove", dirs_to_delete[Len(removed) + 1])}
    /\ UNCHANGED <<main, fs, noperm, op, flags, pc, src_file_sets, dest_file_sets, pending,
                   dirs_to_delete, done, removed, run, fs0, noperm0, PROGRESS_BAR, result>>

\* the closure bodies with PROGRESS_BAR.inc(1) after a compare-and-copy as
\* after a copy or a delete (file_ops.rs:202,229 otherwise)
Effect_inc_one(F, N, task, fl) ==
    CASE task.act = "copy" ->
           LET c == copy_file(F, N, task.file, "src", "dest")
           IN [root |-> "dest", t |-> c.t, inc |-> 1, out |-> {[act |-> "copy", file |-> task.file, ok |-> c.ok]}]
      [] task.act = "remove" ->
           LET r == remove_entry(F, N, task.file, "dest")
           IN [root |-> "dest", t |-> r.t, inc |-> 1, out |-> {[act |-> "remove", file |-> task.file, ok |-> r.ok]}]
      [] task.act = "compare" ->
           LET c == compare_and_copy_file(F, N, task.file, "src", "dest", fl)
           IN [root |-> "dest", t |-> c.t, inc |-> 1,
               out |-> {[act |-> "compare", file |-> task.file, ok |-> c.same]}
                       \cup (IF c.same THEN {}
                             ELSE {[act |-> "overwrite", file |-> task.file, ok |-> c.ok]})]

\* the closure bodies with the deletes given the src root as their location
Effect_deleting_in_src(F, N, task, fl) ==
    CASE task.act = "copy" ->
           LET c == copy_file(F, N, task.file, "src", "dest")
           IN [root |-> "dest", t |-> c.t, inc |-> 1,
               out |-> {[act |-> "copy", file |-> task.file, ok |-> c.ok]}]
      [] task.act = "remove" ->
           LET r == remove_entry(F, N, task.file, "src")
           IN [root |-> "src", t |-> r.t, inc |-> 1,
               out |-> {[act |-> "remove", file |-> task.file, ok |-> r.ok]}]
      [] task.act = "compare" ->
           LET c == compare_and_copy_file(F, N, task.file, "src", "dest", fl)
           IN [root |-> "dest", t |-> c.t, inc |-> 2,
               out |-> {[act |-> "compare", file |-> task.file, ok |-> c.same]}
                       \cup (IF c.same THEN {}
                             ELSE {[act |-> "overwrite", file |-> task.file, ok |-> c.ok]})]

\* what one closure body does: the root it was given to write to (dest in
\* every call of core.rs), that root's tree afterwards, and what it reports
Effect(F, N, task, fl) ==
    CASE task.act = "copy" ->
           LET c == copy_file(F, N, task.file, "src", "dest")
           IN [root |-> "dest", t |-> c.t, inc |-> 1, out |-> {[act |-> "copy", file |-> task.file, ok |-> c.ok]}]
      [] task.act = "remove" ->
           LET r == remove_entry(F, N, task.file, "dest")
           IN [root |-> "dest", t |-> r.t, inc |-> 1, out |-> {[act |-> "remove", file |-> task.file, ok |-> r.ok]}]
      [] task.act = "compare" ->
           LET c == compare_and_copy_file(F, N, task.file, "src", "dest", fl)
           IN [root |-> "dest", t |-> c.t, inc |-> 2,
               out |-> {[act |-> "compare", file |-> task.file, ok |-> c.same]}
                       \cup (IF c.same THEN {}
                             ELSE {[act |-> "overwrite", file |-> task.file, ok |-> c.ok]})]

\* a closure body that hands an entry whose operation failed back to the
\* loop, to be tried again
FinishItem_retrying(task) ==
    /\ task \in running
    /\ LET e == Effect(fs, noperm, task, flags)
           failed == \E d \in e.out : d.act # "compare" /\ ~d.ok
       IN /\ fs' = [fs EXCEPT ![e.root] = e.t]
          /\ noperm' = Prune(noperm, fs')
          /\ done' = done \cup e.out
          /\ PROGRESS_BAR' = IF failed /\ e.out \subseteq done THEN PROGRESS_BAR
                              ELSE PROGRESS_BAR + e.inc
          /\ pending' = IF failed /\ Phase \in SetPhases THEN pending \cup {task} ELSE pending
    /\ running' = running \ {task}
    /\ removed' = IF Phase = "delete_dirs" THEN Append(removed, task.file) ELSE removed
    /\ UNCHANGED <<main, op, flags, pc, src_file_sets, dest_file_sets,
                   dirs_to_delete, run, fs0, noperm0, result>>

\* the closure body runs to its end: the entry's operation, then PROGRESS_BAR.inc
FinishItem(task) ==
    /\ task \in running
    /\ LET e == Effect(fs, noperm, task, flags)
       IN /\ fs' = [fs EXCEPT ![e.root] = e.t]
          /\ noperm' = Prune(noperm, fs')
          /\ done' = done \cup e.out
          /\ PROGRESS_BAR' = PROGRESS_BAR + e.inc
    /\ running' = running \ {task}
    /\ removed' = IF Phase = "delete_dirs" THEN Append(removed, task.file) ELSE removed
    /\ UNCHANGED <<main, op, flags, pc, src_file_sets, dest_file_sets, pending,
                   dirs_to_delete, run, fs0, noperm0, result>>

\* the current call has returned
CallReturned ==
    /\ running = {}
    /\ \/ Phase \in SetPhases /\ pending = {}
       \/ Phase = "delete_dirs" /\ Len(removed) = Len(dirs_to_delete)

\* the next call of the body is made with its set of entries
Advance ==
    /\ CallReturned
    /\ NextPhase # "delete_dirs"
    /\ pc' = pc + 1
    /\ pending' = Items(op, NextPhase, src_file_sets, dest_file_sets)
    /\ UNCHANGED <<main, fs, noperm, op, flags, src_file_sets, dest_file_sets, running,
                   dirs_to_delete, done, removed, run, fs0, noperm0, PROGRESS_BAR, result>>

\* sort_files, and the call of delete_files_sequential on its vector
SortDirs ==
    /\ CallReturned
    /\ NextPhase = "delete_dirs"
    /\ \E sorted \in DirsToDelete(op, src_file_sets, dest_file_sets) :
         dirs_to_delete' = sorted
    /\ pc' = pc + 1
    /\ UNCHANGED <<main, fs, noperm, op, flags, src_file_sets, dest_file_sets, pending, running,
                   done, removed, run, fs0, noperm0, PROGRESS_BAR, result>>

\* Ok(())
Return ==
    /\ Phase = "return"
    /\ result' = "Ok"
    /\ pc' = 0
    /\ UNCHANGED <<main, fs, noperm, op, flags, src_file_sets, dest_file_sets, pending, running,
                   dirs_to_delete, done, removed, run, fs0, noperm0, PROGRESS_BAR>>

\* synchronize is invoked again on the same src and dest with the same flags
Rerun ==
    /\ pc = 0
    /\ op = "synchronize"
    /\ result = "Ok"
    /\ run = 1
    /\ run' = 2
    /\ pc' = 1
    /\ result' = "none"
    /\ fs0' = fs
    /\ src_file_sets' = NoSets
    /\ dest_file_sets' = NoSets
    /\ dirs_to_delete' = << >>
    /\ done' = {}
    /\ removed' = << >>
    /\ PROGRESS_BAR' = 0
    /\ UNCHANGED <<main, fs, noperm, op, flags, pending, running, noperm0>>

Next ==
    \/ ScanSrc
    \/ ScanDest
    \/ \E task \in pending : TakeItem(task)
    \/ TakeDir
    \/ \E task \in running : FinishItem(task)
    \/ Advance
    \/ SortDirs
    \/ Return
    \/ Rerun

Spec == Init /\ [][Next]_vars

\* the same operations on trees with permission faults
SpecFaults == InitFaults /\ [][Next]_vars

\* what the invocation itself does; Rerun is its caller's step
Step ==
    \/ ScanSrc
    \/ ScanDest
    \/ \E task \in pending : TakeItem(task)
    \/ TakeDir
    \/ \E task \in running : FinishItem(task)
    \/ Advance
    \/ SortDirs
    \/ Return

\* the operations on the smaller trees, every entry readable and writable
InitLive == InitState(MaxFaultEntries, 0)

\* the threads of the invocation are scheduled as long as one of them can
\* take a step: every filesystem call returns, and rayon's for_each and the
\* for loops hand out entries while there are any
SpecLive == InitLive /\ [][Next]_vars /\ WF_vars(Step)

\* synchronize on a source with an unreadable directory
SpecSkipped == InitSkipped /\ [][Next]_vars

\* the operations on trees with permission faults, and the batch functions
\* called on their own
SpecCalls == (InitFaults \/ InitCalls) /\ [][Next]_vars

---------------------------------------------------------------------------
(* Vocabulary of the properties *)

\* the two trees hold the same directories, files (bytes) and symlinks (targets)
SameTree(t1, t2) == \A p \in Paths : t1[p] = t2[p]

\* the operation has returned
Returned == pc = 0 /\ result \in {"Ok", "Err"}

\* no entry had mode 000 when the operation was entered
NoModeFaults == noperm0 = {}

\* per-entry operations that have been entered: running now, or completed
Started(act, type) ==
    { t.file : t \in { x \in running : x.act = act /\ x.file.type = type } }
    \cup { d.file : d \in { x \in done : x.act = act /\ x.file.type = type } }

Completed(act, type) == { d.file : d \in { x \in done : x.act = act /\ x.file.type = type } }

\* the entries the run hands to the calls of one phase
Planned(phase) == { t.file : t \in Items(op, phase, src_file_sets, dest_file_sets) }

---------------------------------------------------------------------------
(* C1 -- Convergence.  After synchronize without NoDelete has returned Ok  *)
(* on trees without permission faults, every path holds under dest exactly *)
(* what it holds under src: the same directories, the same files with the  *)
(* same bytes, the same symlinks with the same targets.                    *)
C1_Convergence ==
    (op = "synchronize" /\ "NoDelete" \notin flags /\ result = "Ok" /\ NoModeFaults)
        => SameTree(fs["dest"], fs["src"])

(* C2 -- Idempotence.  When synchronize (deletion enabled) is run a second *)
(* time on an unchanged src, dest ends as the first run left it, and the   *)
(* second run completes nothing but comparisons that find the files equal: *)
(* no copy, no overwrite, no delete.                                       *)
C2_Idempotence ==
    (op = "synchronize" /\ "NoDelete" \notin flags /\ run = 2 /\ result = "Ok" /\ NoModeFaults)
        => /\ fs["dest"] = fs0["dest"]
           /\ \A d \in done : d.act = "compare" /\ d.ok

---------------------------------------------------------------------------
(* C3 -- NoDelete deletes nothing.  At every moment of a synchronize with  *)
(* NoDelete no remove of a file, symlink or directory is pending, running  *)
(* or completed, and every path that existed under dest and not under src  *)
(* when the run was entered still holds the same entry.                    *)
C3_NoDeleteKeepsExtras ==
    (op = "synchronize" /\ "NoDelete" \in flags)
        => /\ \A t \in pending \cup running : t.act # "remove"
           /\ \A d \in done : d.act # "remove"
           /\ dirs_to_delete = << >> /\ removed = << >>
           /\ \A p \in Paths :
                (fs0["dest"][p] # None /\ fs0["src"][p] = None) => fs["dest"][p] = fs0["dest"][p]

\* a NoDelete run that copied something has returned, and an entry that only
\* dest had is there
C3_Witness ==
    /\ op = "synchronize" /\ "NoDelete" \in flags /\ result = "Ok"
    /\ \E d \in done : d.act = "copy" /\ d.ok
    /\ \E p \in Paths : fs0["dest"][p] # None /\ fs0["src"][p] = None /\ fs["dest"][p] # None

---------------------------------------------------------------------------
(* C4 as stated -- with NoDelete, after synchronize has returned Ok every  *)
(* file of src exists under dest at the same path with the same bytes.     *)
C4_Original ==
    (op = "synchronize" /\ "NoDelete" \in flags /\ result = "Ok" /\ NoModeFaults)
        => \A p \in Paths : fs["src"][p].kind = "file" => fs["dest"][p] = fs["src"][p]

\* the path is free or a file under dest, and nothing on the way to it is a
\* file or a symlink there
Placeable(t, p) ==
    /\ t[p].kind \in {"none", "file"}
    /\ \A q \in ProperPrefixes(p) : t[q] \in {None, DirE}

(* C4 amended -- with NoDelete, after synchronize has returned Ok every    *)
(* file of src whose path was, under dest, free or a file, below nothing   *)
(* but directories or free components, exists under dest with the bytes of *)
(* src: files only in src are added, files that differ in size or in bytes *)
(* are overwritten.                                                        *)
C4_NoDeleteAddsAndOverwrites ==
    (op = "synchronize" /\ "NoDelete" \in flags /\ result = "Ok" /\ NoModeFaults)
        => \A p \in Paths :
             (fs["src"][p].kind = "file" /\ Placeable(fs0["dest"], p))
                 => fs["dest"][p] = fs["src"][p]

\* a NoDelete run has added a file and has overwritten one whose bytes differed
C4_Witness ==
    /\ op = "synchronize" /\ "NoDelete" \in flags /\ result = "Ok" /\ run = 1
    /\ \E d \in done : d.act = "copy" /\ d.file.type = "file" /\ d.ok
    /\ \E d \in done : d.act = "overwrite" /\ d.ok
    /\ \A p \in Paths : fs["src"][p].kind = "file" => fs["dest"][p] = fs["src"][p]

---------------------------------------------------------------------------
\* the set sort_files was given, and the vector it returned
SortInput == IF op = "synchronize" THEN dest_file_sets.dirs \ src_file_sets.dirs
             ELSE dest_file_sets.dirs

SortOutput == IF op = "synchronize" THEN dirs_to_delete
              ELSE SubSeq(dirs_to_delete, 1, Len(dirs_to_delete) - 1)

IsAncestor(x, y) == x # y /\ IsPrefix(x.path, y.path)

(* C5 -- Depth-ordered deletion.  In the directory pass of synchronize and *)
(* of remove the vector from sort_files is a permutation of the set it was *)
(* given, the counts of path components along the vector never increase,   *)
(* and whenever the remove of a directory has been entered the remove of   *)
(* every directory of the vector below it has completed.                   *)
C5_DepthOrderedDeletion ==
    Phase = "delete_dirs"
        => /\ Len(SortOutput) = Cardinality(SortInput)
           /\ { SortOutput[i] : i \in 1..Len(SortOutput) } = SortInput
           /\ \A i, j \in 1..Len(dirs_to_delete) :
                i < j => Count(dirs_to_delete[i]) >= Count(dirs_to_delete[j])
           /\ \A i, j \in 1..Len(dirs_to_delete) :
                (/\ IsAncestor(dirs_to_delete[i], dirs_to_delete[j])
                 /\ dirs_to_delete[i] \in Started("remove", "dir"))
                    => dirs_to_delete[j] \in Completed("remove", "dir")

\* a/b/c, then a/b, then a have been removed
C5_Witness ==
    /\ Phase = "delete_dirs"
    /\ Len(removed) >= 3
    /\ removed[1] = Dir(<<"a", "b", "c">>)
    /\ removed[2] = Dir(<<"a", "b">>)
    /\ removed[3] = Dir(<<"a">>)
    /\ fs["dest"][<<"a">>] = None

---------------------------------------------------------------------------
\* the operations of one phase that have completed
CompletedIn(phase) ==
    { d.file : d \in { x \in done : x.act = (CASE phase = "compare" -> "compare"
                                               [] phase \in {"delete_symlinks", "delete_files"} -> "remove"
                                               [] OTHER -> "copy") } }

DirRemoves == { t \in running : t.act = "remove" /\ t.file.type = "dir" }

(* C6 -- Directory deletion is the final phase of synchronize.  Without    *)
(* NoDelete, once a directory remove has been entered, every file and      *)
(* symlink deletion, every copy of a directory, symlink or file and every  *)
(* compare-and-copy of the run has completed, and none is pending or       *)
(* running, in parallel and in Sequential mode.                            *)
C6_DirDeletionLast ==
    (op = "synchronize" /\ "NoDelete" \notin flags /\ Started("remove", "dir") # {})
        => /\ pending = {}
           /\ running \subseteq DirRemoves
           /\ \A phase \in SetPhases : Planned(phase) \subseteq CompletedIn(phase)

\* a directory remove is running after a deletion and a copy have completed
C6_Witness ==
    /\ op = "synchronize" /\ "NoDelete" \notin flags
    /\ DirRemoves # {}
    /\ \E d \in done : d.act = "remove" /\ d.file.type # "dir"
    /\ \E d \in done : d.act = "copy"

---------------------------------------------------------------------------
(* C7 -- Directory deletion is sequential.  In synchronize and in remove,  *)
(* with or without Sequential, at most one directory remove is in progress *)
(* (and nothing else with it), it is the next of the sorted vector, and    *)
(* the removes completed so far are exactly the vector's first elements in *)
(* the vector's order.                                                     *)
C7_DirDeletionSequential ==
    /\ Cardinality(DirRemoves) <= 1
    /\ DirRemoves # {} => running = {Task("remove", dirs_to_delete[Len(removed) + 1])}
    /\ Len(removed) <= Len(dirs_to_delete)
    /\ removed = SubSeq(dirs_to_delete, 1, Len(removed))
    /\ Completed("remove", "dir") = { removed[i] : i \in 1..Len(removed) }

\* a parallel run has removed two directories one after the other
C7_Witness ==
    /\ op = "synchronize" /\ "Sequential" \notin flags
    /\ Len(removed) >= 2
    /\ Len(dirs_to_delete) > Len(removed)
    /\ DirRemoves # {}

---------------------------------------------------------------------------
\* the root could not be opened as a directory when the operation was entered
ScanFails(r) == fs0[r][RootPath] # DirE \/ <<r, RootPath>> \in noperm0

\* a root scan the operation performs fails
RootScanFails ==
    \/ op \in {"synchronize", "copy"} /\ ScanFails("src")
    \/ op \in {"synchronize", "remove"} /\ ScanFails("dest")

ProgramPhases == { Program(op, flags)[i] : i \in 1..Len(Program(op, flags)) }

\* paths below root r that exist and are in none of the three sets of its scan
Skipped(r, sets) ==
    { p \in Paths : fs0[r][p] # None
                    /\ p \notin { f.path : f \in sets.files \cup sets.dirs \cup sets.symlinks } }

(* C8 -- Failure semantics.  synchronize, copy and remove return Err       *)
(* exactly when a root scan they perform fails (src or dest for            *)
(* synchronize, src for copy, the target for remove).  Otherwise they      *)
(* return Ok, whatever entries the scans skipped and whatever hashes,      *)
(* copies and deletes failed, and every planned per-entry operation has    *)
(* been carried out by then.                                               *)
C8_FailureSemantics ==
    Returned
        => /\ result = "Err" <=> RootScanFails
           /\ result = "Ok"
                => /\ \A phase \in SetPhases \cap ProgramPhases :
                        Planned(phase) \subseteq CompletedIn(phase)
                   /\ removed = dirs_to_delete

\* Ok was returned although the scan of dest skipped an entry and a remove failed
C8_Witness ==
    /\ result = "Ok"
    /\ Skipped("dest", dest_file_sets) # {}
    /\ \E d \in done : d.act = "remove" /\ ~d.ok

---------------------------------------------------------------------------
(* C9 -- Copy order of synchronize.  Directories are copied first, then    *)
(* symlinks, then files, each call returning before the next is made, in   *)
(* parallel and in Sequential mode: when a symlink copy has been entered    *)
(* every new directory has been created, and when a file copy has been     *)
(* entered every new directory and every new symlink has been dealt with.  *)
C9_SyncCopyOrder ==
    op = "synchronize"
        => /\ Started("copy", "symlink") # {}
                => Planned("copy_dirs") \subseteq Completed("copy", "dir")
           /\ Started("copy", "file") # {}
                => /\ Planned("copy_dirs") \subseteq Completed("copy", "dir")
                   /\ Planned("copy_symlinks") \subseteq Completed("copy", "symlink")

\* a file copy is running after a directory and a symlink have been copied
C9_Witness ==
    /\ op = "synchronize"
    /\ \E t \in running : t.act = "copy" /\ t.file.type = "file"
    /\ Completed("copy", "dir") # {}
    /\ Completed("copy", "symlink") # {}

---------------------------------------------------------------------------
(* C10 as stated -- copy scans src only and copies all directories, then   *)
(* all symlinks, then all files: when a file copy has been entered every   *)
(* directory and every symlink of src has been copied.                     *)
C10_Original ==
    op = "copy"
        => /\ dest_file_sets = NoSets
           /\ Started("copy", "symlink") # {}
                => Planned("copy_dirs") \subseteq Completed("copy", "dir")
           /\ Started("copy", "file") # {}
                => /\ Planned("copy_dirs") \subseteq Completed("copy", "dir")
                   /\ Planned("copy_symlinks") \subseteq Completed("copy", "symlink")

(* C10 amended -- copy scans src only and copies all directories, then all *)
(* files, then all symlinks, each group completing before the next begins, *)
(* in parallel and in Sequential mode.                                     *)
C10_CopyOrder ==
    op = "copy"
        => /\ dest_file_sets = NoSets
           /\ Started("copy", "file") # {}
                => Planned("copy_dirs") \subseteq Completed("copy", "dir")
           /\ Started("copy", "symlink") # {}
                => /\ Planned("copy_dirs") \subseteq Completed("copy", "dir")
                   /\ Planned("copy_files") \subseteq Completed("copy", "file")

\* a symlink copy is running after a directory and a file have been copied
C10_Witness ==
    /\ op = "copy"
    /\ \E t \in running : t.act = "copy" /\ t.file.type = "symlink"
    /\ Completed("copy", "dir") # {}
    /\ Completed("copy", "file") # {}

---------------------------------------------------------------------------
(* C11 -- copy has no deletion phase and no comparison phase.  At every    *)
(* moment of a copy no remove and no compare-and-copy is pending, running  *)
(* or completed, dest is never scanned and no directory vector is built;   *)
(* no path that existed under dest is ever empty afterwards, and every     *)
(* path that existed under dest and not under src holds the entry it held  *)
(* when copy was entered; once copy has returned Ok, the copy of every     *)
(* file of src has been carried out, whatever dest held at its path.       *)
(* (Symlink targets name nothing inside the two trees.)                    *)
C11_CopyFrame ==
    op = "copy"
        => /\ \A t \in pending \cup running : t.act = "copy"
           /\ \A d \in done : d.act = "copy"
           /\ dest_file_sets = NoSets
           /\ dirs_to_delete = << >> /\ removed = << >>
           /\ \A p \in Paths : fs0["dest"][p] # None => fs["dest"][p] # None
           /\ \A p \in Paths :
                (fs0["dest"][p] # None /\ fs0["src"][p] = None) => fs["dest"][p] = fs0["dest"][p]
           /\ result = "Ok"
                => \A p \in Paths :
                     fs0["src"][p].kind = "file"
                         => File(p, Len(fs0["src"][p].data)) \in Completed("copy", "file")

\* copy has returned after writing a file over an identical one, and an entry
\* that only dest had is there
C11_Witness ==
    /\ op = "copy" /\ result = "Ok"
    /\ \E d \in done :
         /\ d.act = "copy" /\ d.file.type = "file" /\ d.ok
         /\ fs0["dest"][d.file.path] = fs0["src"][d.file.path]
    /\ \E p \in Paths : fs0["dest"][p] # None /\ fs0["src"][p] = None /\ fs["dest"][p] = fs0["dest"][p]

---------------------------------------------------------------------------
(* C12 -- Order of remove.  Once a directory remove has been entered every *)
(* file and every symlink deletion of the run has completed and none is    *)
(* pending or running; at most one directory remove is in progress; the    *)
(* vector of directories is in descending depth and ends with the target   *)
(* root (the empty path), which occurs nowhere else in it; when the remove *)
(* of the root has been entered the remove of every other directory has    *)
(* completed, and when remove has returned Ok the remove of the root was   *)
(* the last operation carried out.                                         *)
C12_RemoveOrder ==
    op = "remove"
        => /\ Started("remove", "dir") # {}
                => /\ pending = {}
                   /\ running \subseteq DirRemoves
                   /\ Cardinality(running) <= 1
                   /\ Planned("delete_files") \subseteq Completed("remove", "file")
                   /\ Planned("delete_symlinks") \subseteq Completed("remove", "symlink")
           /\ Phase = "delete_dirs"
                => /\ dirs_to_delete[Len(dirs_to_delete)] = Dir(RootPath)
                   /\ \A i \in 1..(Len(dirs_to_delete) - 1) : dirs_to_delete[i] # Dir(RootPath)
                   /\ \A i, j \in 1..Len(dirs_to_delete) :
                        i < j => Count(dirs_to_delete[i]) >= Count(dirs_to_delete[j])
                   /\ removed = SubSeq(dirs_to_delete, 1, Len(removed))
           /\ Dir(RootPath) \in Started("remove", "dir")
                => dest_file_sets.dirs \subseteq Completed("remove", "dir")
           /\ result = "Ok"
                => /\ removed # << >>
                   /\ removed[Len(removed)] = Dir(RootPath)
                   /\ Len(removed) = Cardinality(dest_file_sets.dirs) + 1

\* the root is being removed after a file, a symlink and a directory below it
C12_Witness ==
    /\ op = "remove"
    /\ running = {Task("remove", Dir(RootPath))}
    /\ Completed("remove", "file") # {}
    /\ Completed("remove", "symlink") # {}
    /\ Completed("remove", "dir") # {}

---------------------------------------------------------------------------
(* C13 -- remove empties the target.  When remove has returned Ok, its     *)
(* scan reached every entry below the target and none of its deletes       *)
(* failed, then neither the target directory nor any file, symlink or      *)
(* directory below it exists, with and without Sequential.                 *)
C13_RemoveEmptiesTarget ==
    (/\ op = "remove" /\ result = "Ok"
     /\ Skipped("dest", dest_file_sets) = {}
     /\ \A d \in done : d.ok)
        => \A p \in AllPaths : fs["dest"][p] = None

\* a parallel remove has returned from a target that held a directory with
\* an entry in it, one of the two with mode 000, and nothing is left
C13_Witness ==
    /\ op = "remove" /\ result = "Ok" /\ "Sequential" \notin flags
    /\ noperm0 # {}
    /\ fs0["dest"][<<"a">>] = DirE /\ fs0["dest"][<<"a", "b">>] # None
    /\ \A d \in done : d.ok
    /\ \A p \in AllPaths : fs["dest"][p] = None

---------------------------------------------------------------------------
(* C14 -- Sequential runs one operation at a time.  In a synchronize with  *)
(* the Sequential flag at most one per-entry operation is in progress at   *)
(* any moment of the run: in the deletions of files and symlinks (phase    *)
(* 2), in the copies of directories, symlinks and files (phase 3) and in   *)
(* the compare-and-copy (phase 4).                                         *)
C14_SequentialNoOverlap ==
    (op = "synchronize" /\ "Sequential" \in flags) => Cardinality(running) <= 1

---------------------------------------------------------------------------
(* The operation as the _sequential functions carry it out: every call     *)
(* works through its entries one after the other, each closure body ending *)
(* before the next begins.                                                 *)

\* copy_files_sequential, delete_files_sequential and
\* compare_and_copy_files_sequential on a set, iterated in the set's order
RECURSIVE RunItems(_, _, _, _)
RunItems(F, N, items, fl) ==
    IF items = {} THEN [fs |-> F, noperm |-> N]
    ELSE LET task == CHOOSE x \in items : TRUE
             e == Effect(F, N, task, fl)
             F1 == [F EXCEPT ![e.root] = e.t]
         IN RunItems(F1, Prune(N, F1), items \ {task}, fl)

\* delete_files_sequential on the sorted vector of directories
RECURSIVE RunVector(_, _, _, _)
RunVector(F, N, v, fl) ==
    IF v = << >> THEN [fs |-> F, noperm |-> N]
    ELSE LET e == Effect(F, N, Task("remove", Head(v)), fl)
             F1 == [F EXCEPT ![e.root] = e.t]
         IN RunVector(F1, Prune(N, F1), Tail(v), fl)

\* the body of the operation from its i-th call on; gives the filesystem it leaves
RECURSIVE RunProgram(_, _, _, _, _, _, _)
RunProgram(o, fl, F, N, S, D, i) ==
    LET phase == Program(o, fl)[i]
    IN CASE phase = "scan_src" ->
              LET S1 == get_all_files(F["src"], NoPermOf(N, "src"), Location("src"))
              IN IF S1.ok THEN RunProgram(o, fl, F, N, S1, D, i + 1) ELSE F
         [] phase = "scan_dest" ->
              LET D1 == get_all_files(F["dest"], NoPermOf(N, "dest"), Location("dest"))
              IN IF D1.ok THEN RunProgram(o, fl, F, N, S, D1, i + 1) ELSE F
         [] phase \in SetPhases ->
              LET r == RunItems(F, N, Items(o, phase, S, D), fl)
              IN RunProgram(o, fl, r.fs, r.noperm, S, D, i + 1)
         [] phase = "delete_dirs" ->
              LET r == RunVector(F, N, CHOOSE v \in DirsToDelete(o, S, D) : TRUE, fl)
              IN RunProgram(o, fl, r.fs, r.noperm, S, D, i + 1)
         [] OTHER -> F

\* the filesystem the operation leaves when it is given the Sequential flag
SequentialRun(o, fl, F, N) == RunProgram(o, fl \cup {"Sequential"}, F, N, NoSets, NoSets, 1)

(* C15 -- Executor choice does not change the result.  When synchronize,   *)
(* copy or remove has returned, with or without Sequential and whatever    *)
(* the order in which the threads took and finished the entries of each    *)
(* call, dest is what the same operation leaves when it is given the       *)
(* Sequential flag on the same initial trees with the same modes.          *)
C15_ExecutorEquivalence ==
    (Returned /\ run = 1)
        => fs["dest"] = SequentialRun(op, flags, fs0, noperm0)["dest"]

\* a parallel run in which one operation failed and two succeeded has returned
C15_Witness ==
    /\ result = "Ok" /\ run = 1 /\ "Sequential" \notin flags
    /\ \E d \in done : ~d.ok /\ d.act # "compare"
    /\ Cardinality({ d \in done : d.ok /\ d.act # "compare" }) >= 2
    /\ fs["dest"] # fs0["dest"]
    /\ fs["dest"] = SequentialRun(op, flags, fs0, noperm0)["dest"]

---------------------------------------------------------------------------
\* paths that hold a symlink in both trees, with different targets, when the
\* run is entered
RetargetedLinks ==
    { p \in Paths : /\ fs0["src"][p].kind = "symlink" /\ fs0["dest"][p].kind = "symlink"
                    /\ fs0["src"][p].data # fs0["dest"][p].data }

(* C16 -- A symlink whose target changed is recreated.  For a path that    *)
(* holds a symlink in src and in dest with different targets, synchronize  *)
(* never compares the two: with deletion enabled the dest scan's link is   *)
(* in the delete set and the src scan's link in the copy set, and when the *)
(* run has returned Ok the old link has been removed, the new one created  *)
(* and dest holds at that path a link with the target of src.              *)
C16_SymlinkRetarget ==
    (op = "synchronize" /\ run = 1 /\ NoModeFaults)
        => \A p \in RetargetedLinks :
             /\ \A t \in pending \cup running : t.file.path = p => t.act # "compare"
             /\ \A d \in done : d.file.path = p => d.act \in {"remove", "copy"}
             /\ (src_file_sets.ok /\ dest_file_sets.ok)
                  => /\ Symlink(p, fs0["dest"][p].data) \in Planned("delete_symlinks")
                     /\ Symlink(p, fs0["src"][p].data) \in Planned("copy_symlinks")
             /\ ("NoDelete" \notin flags /\ result = "Ok")
                  => /\ [act |-> "remove", file |-> Symlink(p, fs0["dest"][p].data), ok |-> TRUE] \in done
                     /\ [act |-> "copy", file |-> Symlink(p, fs0["src"][p].data), ok |-> TRUE] \in done
                     /\ fs["dest"][p] = fs["src"][p]

\* a run with deletion has returned after replacing a link, and did more
C16_Witness ==
    /\ op = "synchronize" /\ run = 1 /\ "NoDelete" \notin flags /\ result = "Ok"
    /\ \E p \in RetargetedLinks : fs["dest"][p] = fs["src"][p]
    /\ Cardinality(done) >= 3

---------------------------------------------------------------------------
\* paths that hold a file in both trees, of different sizes, when the run is
\* entered
ResizedFiles ==
    { p \in Paths : /\ fs0["src"][p].kind = "file" /\ fs0["dest"][p].kind = "file"
                    /\ Len(fs0["src"][p].data) # Len(fs0["dest"][p].data) }

\* the File the scan of root r records for path p
ScannedFile(r, p) == File(p, Len(fs0[r][p].data))

(* C17 -- Files of different sizes are distinct entries.  For a path that  *)
(* holds a file in src and in dest with different sizes, once synchronize  *)
(* has scanned both trees neither entry is in the compare set, the dest    *)
(* entry is in the delete set and the src entry in the copy set; no        *)
(* compare-and-copy (hence no hash) is ever pending, running or completed  *)
(* for the path, and when a run with deletion has returned Ok the old file *)
(* has been removed, the new one copied, and dest holds the bytes of src.  *)
C17_SizeDiffersNoCompare ==
    (op = "synchronize" /\ run = 1 /\ NoModeFaults)
        => \A p \in ResizedFiles :
             /\ \A t \in pending \cup running : t.file.path = p => t.act # "compare"
             /\ \A d \in done : d.file.path = p => d.act \in {"remove", "copy"}
             /\ (src_file_sets.ok /\ dest_file_sets.ok)
                  => /\ \A f \in Planned("compare") : f.path # p
                     /\ ScannedFile("dest", p) \in Planned("delete_files")
                     /\ ScannedFile("src", p) \in Planned("copy_files")
             /\ ("NoDelete" \notin flags /\ result = "Ok")
                  => /\ [act |-> "remove", file |-> ScannedFile("dest", p), ok |-> TRUE] \in done
                     /\ [act |-> "copy", file |-> ScannedFile("src", p), ok |-> TRUE] \in done
                     /\ fs["dest"][p] = fs["src"][p]

\* a run with deletion has returned after replacing a file by one of another
\* size, and has created a directory or a symlink as well
C17_Witness ==
    /\ op = "synchronize" /\ run = 1 /\ "NoDelete" \notin flags /\ result = "Ok"
    /\ \E p \in ResizedFiles : fs["dest"][p] = fs["src"][p]
    /\ \E d \in done : d.act = "copy" /\ d.file.type # "file"

---------------------------------------------------------------------------
\* the hash of the file at p under root r, as the run was entered, is None
Unhashable(r, p) == ~Readable(fs0[r], NoPermOf(noperm0, r), p)

(* C18 -- A missing hash means not same.  Whenever a compare-and-copy has  *)
(* completed for a file whose hash under src or under dest could not be    *)
(* computed, with the fast hash and with the Secure one, the pair was      *)
(* judged not same and the copy of the src file over the dest file was     *)
(* attempted.                                                              *)
C18_HashFailureCopies ==
    run = 1
        => \A d \in done :
             (d.act = "compare" /\ (Unhashable("src", d.file.path) \/ Unhashable("dest", d.file.path)))
                 => /\ ~d.ok
                    /\ \E c \in done : c.act = "overwrite" /\ c.file = d.file

\* a Secure run has returned after a compare whose dest file could not be read
C18_Witness ==
    /\ run = 1 /\ "Secure" \in flags /\ result = "Ok"
    /\ \E d \in done :
         /\ d.act = "compare" /\ ~d.ok
         /\ Unhashable("dest", d.file.path) /\ ~Unhashable("src", d.file.path)
         /\ [act |-> "overwrite", file |-> d.file, ok |-> FALSE] \in done

---------------------------------------------------------------------------
(* C19 -- Comparator correctness.  For every file of the compare set, with *)
(* the fast hash and with the Secure one, the pair is judged same exactly  *)
(* when the src bytes and the dest bytes are identical; and when           *)
(* synchronize has returned Ok, in parallel or in Sequential mode, every   *)
(* file of the compare set holds under dest the bytes it holds under src.  *)
(* (Contents of equal size differ in one byte here; two contents on which  *)
(* the hash collides are not among them.)                                  *)
C19_ComparatorCorrect ==
    (op = "synchronize" /\ run = 1 /\ NoModeFaults)
        => /\ \A d \in done :
                d.act = "compare" => (d.ok <=> fs0["src"][d.file.path] = fs0["dest"][d.file.path])
           /\ result = "Ok"
                => \A f \in Planned("compare") : fs["dest"][f.path] = fs["src"][f.path]

\* a run has returned after judging a pair of equal size not same and
\* overwriting the dest file
C19_Witness ==
    /\ op = "synchronize" /\ run = 1 /\ result = "Ok"
    /\ \E d \in done :
         /\ d.act = "compare" /\ ~d.ok
         /\ fs0["src"][d.file.path].data = <<0>> /\ fs0["dest"][d.file.path].data = <<1>>
         /\ fs["dest"][d.file.path] = FileE(<<0>>)

---------------------------------------------------------------------------
\* the run is the synchronize of the worked example
ScenarioRun == op = "synchronize" /\ flags = {} /\ run = 1 /\ fs0 \in ScenarioTrees

(* C20 -- Worked example.  With src = {file.txt containing "abcd",         *)
(* directory subdir} and dest = {file.txt containing "abce", old.txt},     *)
(* synchronize with default flags returns Ok, and then dest holds file.txt *)
(* with the bytes "abcd", holds the directory subdir and holds nothing at  *)
(* old.txt.                                                                *)
C20_Scenario ==
    ScenarioRun
        => /\ result # "Err"
           /\ result = "Ok"
                => /\ fs["dest"][<<"file.txt">>] = FileE(abcd)
                   /\ fs["dest"][<<"subdir">>] = DirE
                   /\ fs["dest"][<<"old.txt">>] = None

\* the run of the worked example has returned: file.txt was compared and
\* overwritten, subdir created, old.txt removed
C20_Witness ==
    /\ ScenarioRun /\ result = "Ok"
    /\ [act |-> "compare", file |-> File(<<"file.txt">>, 4), ok |-> FALSE] \in done
    /\ [act |-> "overwrite", file |-> File(<<"file.txt">>, 4), ok |-> TRUE] \in done
    /\ [act |-> "copy", file |-> Dir(<<"subdir">>), ok |-> TRUE] \in done
    /\ \E d \in done : d.act = "remove" /\ d.file.path = <<"old.txt">> /\ d.ok
    /\ SameTree(fs["dest"], fs["src"])

---------------------------------------------------------------------------
\* closure bodies of copy_files / delete_files that have ended in this run
CopiesAndDeletes == { d \in done : d.act \in {"copy", "remove"} }

\* closure bodies of compare_and_copy_files that have ended in this run
Comparisons == { d \in done : d.act = "compare" }

\* the entries the calls of the operation's body are given, over all of them
PlannedOnce ==
    UNION { Planned(phase) : phase \in (SetPhases \ {"compare"}) \cap ProgramPhases }

(* C21 -- Progress counter.  At every moment of a run, parallel or         *)
(* sequential, the counter equals the number of copies and deletes of      *)
(* files, directories and symlinks carried out so far, failed ones         *)
(* included, plus twice the number of files compared so far; when the      *)
(* operation has returned Ok it equals the number of entries handed to the *)
(* copy and delete calls plus twice the size of the compare set.           *)
C21_ProgressCounter ==
    /\ PROGRESS_BAR = Cardinality(CopiesAndDeletes) + 2 * Cardinality(Comparisons)
    /\ result = "Ok"
         => PROGRESS_BAR = Cardinality(PlannedOnce) + Len(dirs_to_delete)
                           + 2 * (IF "compare" \in ProgramPhases
                                  THEN Cardinality(Planned("compare")) ELSE 0)

\* a parallel run has returned after a comparison and a copy or delete, with
\* the counter at three
C21_Witness ==
    /\ result = "Ok" /\ "Sequential" \notin flags
    /\ Cardinality(Comparisons) = 1
    /\ Cardinality(CopiesAndDeletes) = 1
    /\ PROGRESS_BAR = 3

---------------------------------------------------------------------------
\* the scan the operation made of root r
ScanOf(r) == IF r = "src" THEN src_file_sets ELSE dest_file_sets

\* the relative paths a collection holds
ScannedPaths(sets) == { f.path : f \in sets.files \cup sets.dirs \cup sets.symlinks }

\* the entries below root r that a read_dir of the scan returns: those with
\* nothing but readable directories above them
Reached(r) ==
    { p \in Paths : fs0[r][p] # None /\ Accessible(fs0[r], NoPermOf(noperm0, r), p) }

\* the subdirectories the scan of root r comes to and cannot read
Unreadable(r) == { p \in Reached(r) : fs0[r][p] = DirE /\ <<r, p>> \in noperm0 }

(* C22 as stated -- a scan returns an error, with no partial collection,   *)
(* only when the root cannot be opened as a directory; an entry below the  *)
(* root that cannot be read, such as an unreadable subdirectory, is        *)
(* skipped (it is in none of the sets) and the scan returns Ok with all    *)
(* the other entries.                                                      *)
C22_Original ==
    run = 1
        => /\ result = "Err" => RootScanFails
           /\ \A r \in Roots :
                /\ ScanFails(r) => ScanOf(r) = NoSets
                /\ ScanOf(r).ok
                     => /\ ScannedPaths(ScanOf(r)) \cap Unreadable(r) = {}
                        /\ Reached(r) \ Unreadable(r) \subseteq ScannedPaths(ScanOf(r))

(* C22 amended -- a scan returns an error, with no partial collection,     *)
(* only when the root cannot be opened as a directory.  A subdirectory     *)
(* below the root that cannot be read is itself recorded as a directory    *)
(* and only the entries below it are missing: the scan returns Ok with     *)
(* exactly the entries that have nothing but readable directories above    *)
(* them.                                                                   *)
C22_ScanErrors ==
    run = 1
        => /\ result = "Err" => RootScanFails
           /\ \A r \in Roots :
                /\ ScanFails(r) => ScanOf(r) = NoSets
                /\ ScanOf(r).ok
                     => /\ ScannedPaths(ScanOf(r)) = Reached(r)
                        /\ \A p \in Unreadable(r) : Dir(p) \in ScanOf(r).dirs

\* a scan has returned Ok from a tree with a subdirectory it could not read,
\* missing what that subdirectory holds
C22_Witness ==
    /\ run = 1
    /\ \E r \in Roots :
         /\ ScanOf(r).ok
         /\ Unreadable(r) # {}
         /\ Skipped(r, ScanOf(r)) # {}

---------------------------------------------------------------------------
\* a scan of dest as it is now
RescanDest == get_all_files(fs["dest"], NoPermOf(noperm, "dest"), Location("dest"))

(* C23 -- Paths relative to the scan root.  Every entry of a scan carries  *)
(* the path of its object below the scanned root, without the root's own   *)
(* location; when synchronize has scanned two roots that lie at different  *)
(* locations and hold the same tree, the two collections are equal; and    *)
(* when copy has returned Ok with every copy successful into a dest that   *)
(* held nothing, a scan of dest (which now exists) gives the collection    *)
(* the scan of src gave.                                                   *)
C23_RelativePaths ==
    run = 1
        => /\ \A r \in Roots : ScanOf(r).ok => ScannedPaths(ScanOf(r)) = Reached(r)
           /\ (/\ op = "synchronize" /\ src_file_sets.ok /\ dest_file_sets.ok
               /\ SameTree(fs0["src"], fs0["dest"]))
                  => src_file_sets = dest_file_sets
           /\ (/\ op = "copy" /\ result = "Ok"
               /\ Existing(fs0["dest"]) = {}
               /\ \A d \in done : d.ok
               /\ fs["dest"][RootPath] = DirE)
                  => RescanDest = src_file_sets

\* copy has returned after creating the whole of a tree of three entries
\* below a dest that did not exist, and the scan of dest equals that of src
C23_Witness ==
    /\ op = "copy" /\ result = "Ok" /\ run = 1
    /\ fs0["dest"] = AbsentTree
    /\ Cardinality(done) = 3 /\ \A d \in done : d.ok
    /\ RescanDest = src_file_sets

---------------------------------------------------------------------------
\* the paths of the entries of one set
PathsOf(set) == { f.path : f \in set }

\* no two entries of the set share a path
OnePerPath(set) == \A f, g \in set : f.path = g.path => f = g

(* C24 -- One set per object, links not followed.  In the collection of a  *)
(* scan every object the scan reaches is in exactly one of the three sets, *)
(* the one of its own type: a file in files with its size, a directory in  *)
(* dirs, a symlink in symlinks with its target as stored, whether the      *)
(* target names a directory or nothing; no set holds two entries with one  *)
(* path; and no entry of the collection lies below the path of a symlink.  *)
C24_ScanClassifies ==
    run = 1
        => \A r \in Roots :
             ScanOf(r).ok
                 => /\ \A p \in Reached(r) :
                         /\ fs0[r][p].kind = "file"
                              => /\ File(p, Len(fs0[r][p].data)) \in ScanOf(r).files
                                 /\ p \notin PathsOf(ScanOf(r).dirs \cup ScanOf(r).symlinks)
                         /\ fs0[r][p].kind = "dir"
                              => /\ Dir(p) \in ScanOf(r).dirs
                                 /\ p \notin PathsOf(ScanOf(r).files \cup ScanOf(r).symlinks)
                         /\ fs0[r][p].kind = "symlink"
                              => /\ Symlink(p, fs0[r][p].data) \in ScanOf(r).symlinks
                                 /\ p \notin PathsOf(ScanOf(r).files \cup ScanOf(r).dirs)
                                 /\ \A q \in ScannedPaths(ScanOf(r)) : IsPrefix(p, q) => q = p
                    /\ ScannedPaths(ScanOf(r)) = Reached(r)
                    /\ OnePerPath(ScanOf(r).files)
                    /\ OnePerPath(ScanOf(r).dirs)
                    /\ OnePerPath(ScanOf(r).symlinks)

\* a scan has recorded a link to a directory as a symlink, next to a file
\* below a directory
C24_Witness ==
    /\ run = 1
    /\ \E r \in Roots :
         /\ ScanOf(r).ok
         /\ \E l \in ScanOf(r).symlinks : TargetKind(l.target) = "dir"
         /\ \E f \in ScanOf(r).files : Dir(Parent(f.path)) \in ScanOf(r).dirs

---------------------------------------------------------------------------
\* the entries of the set a batch function was called with
Input == Planned(Program(op, flags)[1])

\* the entries whose closure body is waiting, running, has run
Waiting == { t.file : t \in pending }
InFlight == { t.file : t \in running }
Attempted == { d.file : d \in done }

\* every entry of the set is waiting, in flight or attempted, and only one of
\* the three; an attempted entry has one outcome
OneAttemptEach ==
    /\ Waiting \cup InFlight \cup Attempted = Input
    /\ Waiting \cap InFlight = {}
    /\ Waiting \cap Attempted = {}
    /\ InFlight \cap Attempted = {}
    /\ \A f \in Attempted : Cardinality({ d \in done : d.file = f }) = 1
    /\ PROGRESS_BAR = Cardinality(Attempted)

\* this step completes a copy or a delete that failed
FailedStep == \E d \in done' \ done : d.act \in {"copy", "remove"} /\ ~d.ok

(* C25 -- Per-entry error isolation: copy_files, copy_files_sequential,
   delete_files and delete_files_sequential attempt every entry of the set
   they are given exactly once, whatever the outcome of the other entries
   (a call has returned only when each entry has one outcome, failed or
   not), and a copy or a delete that fails -- a delete of a path that does
   not exist, say -- changes nothing on the filesystem, so every other
   entry stays as it was. *)
C25_ErrorIsolation ==
    /\ [](op \in Calls => /\ OneAttemptEach
                           /\ result = "Ok" => Attempted = Input)
    /\ [][FailedStep => fs' = fs /\ noperm' = noperm]_vars

\* delete_files has returned after two attempts: a delete of a path where
\* nothing was, which failed, and a delete that removed its entry
C25_Witness ==
    /\ op = "delete_files"
    /\ result = "Ok"
    /\ \E d1, d2 \in done :
         /\ ~d1.ok /\ fs0["dest"][d1.file.path] = None
         /\ d2.ok /\ fs0["dest"][d2.file.path] # None /\ fs["dest"][d2.file.path] = None

---------------------------------------------------------------------------
\* the directory entries created one after the other in an order fixed
\* beforehand, failures passed over
RECURSIVE CreateAll(_, _, _)
CreateAll(t, P, dirs) ==
    IF dirs = {} THEN t
    ELSE LET d == CHOOSE x \in dirs : TRUE
         IN CreateAll(create_dir_all(t, P, d.path).t, P, dirs \ {d})

\* the first call on a set of copy and of copy_files, made on the trees the
\* operation was entered with, has returned
FirstCopyCallOver ==
    /\ op \in {"copy", "copy_files"}
    /\ pc = (IF op = "copy" THEN 2 ELSE 1)
    /\ CallReturned

\* the copies of directory entries that this step completes
DirCopiesCompleted == { d \in done' \ done : d.act = "copy" /\ d.file.type = "dir" }

\* p names a directory in the tree, directly or through a link
IsDirAt(t, p) == t[p] = DirE \/ (t[p].kind = "symlink" /\ TargetKind(t[p].data) = "dir")

(* C26 -- Copying a directory entry ensures that the directory exists: a
   copy that succeeds leaves a directory at the destination path and at
   every component above it, having created the missing ones and changed
   nothing that was there; a directory that is already there (and can be
   reached) is not an error and nothing changes; and when a call that was
   given only directory entries has returned, the destination is what
   creating them one by one in a fixed order gives, however the creations
   were ordered or overlapped. *)
C26_DirCopyEnsuresExists ==
    /\ [](FirstCopyCallOver /\ (\A f \in Planned(Phase) : f.type = "dir")
             => fs["dest"] = CreateAll(fs0["dest"], NoPermOf(noperm0, "dest"), Planned(Phase)))
    /\ [][\A d \in DirCopiesCompleted :
            LET path == d.file.path
                t == fs["dest"]
                t2 == fs'["dest"]
            IN /\ fs'["src"] = fs["src"]
               /\ t[path] = DirE /\ Accessible(t, NoPermOf(noperm, "dest"), path)
                    => d.ok /\ t2 = t
               /\ d.ok => /\ IsDirAt(t2, path)
                          /\ \A q \in ProperPrefixes(path) : t2[q] = DirE
                          /\ \A q \in AllPaths : t[q] # None => t2[q] = t[q]
                          /\ \A q \in AllPaths : t2[q] # t[q] => IsPrefix(q, path)]_vars

\* copy_files has returned from a set of two directories: one two levels
\* down whose parent was missing, and one that was already there
C26_Witness ==
    /\ op = "copy_files"
    /\ result = "Ok"
    /\ \E d1, d2 \in done :
         /\ d1.file.type = "dir" /\ d1.ok /\ Len(d1.file.path) = 2
         /\ fs0["dest"][Parent(d1.file.path)] = None
         /\ fs["dest"][Parent(d1.file.path)] = DirE
         /\ d2.file.type = "dir" /\ d2.ok /\ fs0["dest"][d2.file.path] = DirE

---------------------------------------------------------------------------
\* the copies of symlink entries that have succeeded
LinksCreated == { d \in done : d.act = "copy" /\ d.file.type = "symlink" /\ d.ok }

(* C27 -- A symlink copy that succeeds creates a new link at the entry's
   path below dest -- nothing was at that path before, nothing else changes
   -- and the link holds the target the entry recorded, unchanged; a scan of
   dest made afterwards records the entry's (relative path, target), which
   for copy and synchronize is the pair the scan of src recorded. *)
C27_SymlinkCopyVerbatim ==
    /\ [](\A d \in LinksCreated :
             /\ fs["dest"][d.file.path] = LinkE(d.file.target)
             /\ RescanDest.ok
             /\ Symlink(d.file.path, d.file.target) \in RescanDest.symlinks
             /\ op \in Ops => d.file \in src_file_sets.symlinks)
    /\ [][\A d \in LinksCreated' \ LinksCreated :
            /\ fs["dest"][d.file.path] = None
            /\ fs' = [fs EXCEPT !["dest"][d.file.path] = LinkE(d.file.target)]]_vars

\* copy has returned after creating a link below a directory, and the scan
\* of dest records the symlinks the scan of src recorded
C27_Witness ==
    /\ op = "copy"
    /\ result = "Ok"
    /\ \E d \in LinksCreated : Len(d.file.path) = 2
    /\ RescanDest.symlinks = src_file_sets.symlinks

---------------------------------------------------------------------------
(* C28 -- Termination.  Every invocation of synchronize, copy or remove
   returns: Err, from a failed root scan, with no per-entry operation made
   and the trees as they were; or Ok, with every entry handed to a call
   attempted once (the counter and the records of the run agree with the
   planned sets, failures included).  Within an invocation the body only
   moves forward from call to call: no call is made a second time. *)
C28_Termination ==
    /\ (pc # 0) ~> Returned
    /\ [](result = "Err" => RootScanFails /\ done = {} /\ PROGRESS_BAR = 0 /\ fs = fs0)
    /\ [](result = "Ok"
            => /\ \A phase \in SetPhases \cap ProgramPhases :
                    Planned(phase) \subseteq CompletedIn(phase)
               /\ removed = dirs_to_delete
               /\ PROGRESS_BAR = Cardinality(PlannedOnce) + Len(dirs_to_delete)
                                 + 2 * (IF "compare" \in ProgramPhases
                                        THEN Cardinality(Planned("compare")) ELSE 0))
    /\ [][run' = run => pc' = pc \/ pc' = pc + 1 \/ pc' = 0]_vars
    /\ [][pc = 0 /\ pc' # 0 => run' = run + 1]_vars

\* an invocation has returned Ok although one of its operations failed: the
\* failed entry was attempted once like the others
C28_Witness ==
    /\ result = "Ok"
    /\ pc = 0
    /\ Cardinality(done) >= 2
    /\ \E d \in done : d.act \in {"copy", "remove"} /\ ~d.ok
    /\ PROGRESS_BAR = Cardinality(done)

---------------------------------------------------------------------------
\* the copies and comparisons that have been entered
CopiesStarted ==
    Started("copy", "dir") \cup Started("copy", "symlink") \cup Started("copy", "file")
    \cup Started("compare", "file")

\* the files and symlinks of dest that synchronize hands to its two
\* delete_files calls
ToDelete == Planned("delete_symlinks") \cup Planned("delete_files")

(* C29 -- In synchronize with deletion enabled, once a copy or a comparison
   has been entered every deletion of a dest file or symlink has completed
   and none is running; so for a path that holds an old dest file or symlink
   and gets a different src entry (other size, other target, a directory),
   the delete of the old entry has completed before the copy of the new one
   is entered. *)
C29_DeletesBeforeCopies ==
    (op = "synchronize" /\ "NoDelete" \notin flags /\ CopiesStarted # {})
        => /\ ToDelete \subseteq Completed("remove", "symlink") \cup Completed("remove", "file")
           /\ Started("remove", "symlink") \cup Started("remove", "file") \subseteq ToDelete
           /\ \A t \in running : ~(t.act = "remove" /\ t.file.type \in {"file", "symlink"})
           /\ \A f \in CopiesStarted : \A g \in ToDelete :
                 g.path = f.path
                     => /\ \E r \in done : r.act = "remove" /\ r.file = g
                        /\ \A r \in done : (r.act = "remove" /\ r.file = g /\ r.ok)
                              => fs["dest"][g.path] # fs0["dest"][g.path]

\* synchronize has removed a dest symlink and then created, at the same
\* path, the src symlink with the other target
C29_Witness ==
    /\ op = "synchronize"
    /\ "NoDelete" \notin flags
    /\ \E r, c \in done :
         /\ r.act = "remove" /\ r.ok /\ r.file.type = "symlink"
         /\ c.act = "copy" /\ c.ok /\ c.file.type = "symlink"
         /\ c.file.path = r.file.path
         /\ c.file.target # r.file.target
         /\ fs["dest"][c.file.path] = LinkE(c.file.target)

---------------------------------------------------------------------------
\* the closure bodies of compare_and_copy_files that this step completes
ComparisonsCompleted == { d \in done' \ done : d.act = "compare" }

\* the file at the entry's path can be read below both roots and holds the
\* same bytes
IdenticalReadable(file) ==
    /\ Readable(fs["src"], NoPermOf(noperm, "src"), file.path)
    /\ Readable(fs["dest"], NoPermOf(noperm, "dest"), file.path)
    /\ fs["src"][file.path].data = fs["dest"][file.path].data

(* C30 -- The comparison is read-only.  When compare_and_copy_files or
   compare_and_copy_files_sequential, in Fast or in Secure mode, has dealt
   with a file that can be read on both sides and holds the same bytes on
   both, the two files were found alike, no copy was made, and src and dest
   are as they were before; and a file found alike is never copied later in
   the run. *)
C30_CompareReadOnly ==
    /\ [][\A d \in ComparisonsCompleted :
            IdenticalReadable(d.file)
                => /\ d.ok
                   /\ \A e \in done' \ done : e.act = "compare"
                   /\ fs' = fs
                   /\ noperm' = noperm]_vars
    /\ [](\A d \in done : d.act = "compare" /\ d.ok
             => \A e \in done : ~(e.act \in {"overwrite", "copy"} /\ e.file = d.file))

\* in Secure mode two files with the same bytes, not empty, have been
\* compared and found alike, and dest holds what it held
C30_Witness ==
    /\ "Secure" \in flags
    /\ \E d \in done :
         /\ d.act = "compare" /\ d.ok
         /\ Len(fs["src"][d.file.path].data) > 0
         /\ fs["dest"][d.file.path] = fs["src"][d.file.path]
    /\ fs = fs0

---------------------------------------------------------------------------
\* the removes of directory entries that this step completes
DirRemovesCompleted == { d \in done' \ done : d.act = "remove" /\ d.file.type = "dir" }

\* the directory at p holds an entry
NonEmpty(t, p) == t[p] = DirE /\ \E c \in Children(p) : t[c] # None

(* C31 -- Removing a directory entry removes the directory only when it is
   empty: the remove of a directory that holds an entry fails and changes
   nothing, the directory and everything below it included; a remove that
   succeeds was given an empty directory and takes away that directory
   alone; and a failed remove does not keep the other directories of the
   set from being dealt with: delete_files and delete_files_sequential
   return with every entry attempted. *)
C31_NonEmptyDirKept ==
    /\ [][\A d \in DirRemovesCompleted :
            /\ NonEmpty(fs["dest"], d.file.path) => ~d.ok /\ fs' = fs
            /\ d.ok => /\ fs["dest"][d.file.path] = DirE
                       /\ ~NonEmpty(fs["dest"], d.file.path)
                       /\ fs' = [fs EXCEPT !["dest"][d.file.path] = None]]_vars
    /\ [](op = "delete_files" /\ result = "Ok" => Attempted = Input)

\* delete_files has returned from a set of two directories: the remove of
\* the one that held the other failed and it is still there, the other is gone
C31_Witness ==
    /\ op = "delete_files"
    /\ result = "Ok"
    /\ \E d1, d2 \in done :
         /\ d1.file.type = "dir" /\ ~d1.ok
         /\ fs["dest"][d1.file.path] = DirE
         /\ d2.file.type = "dir" /\ d2.ok
         /\ Parent(d2.file.path) = d1.file.path
         /\ fs["dest"][d2.file.path] = None

---------------------------------------------------------------------------
\* the directory copies that have succeeded
DirsCreated == { d \in done : d.act = "copy" /\ d.file.type = "dir" /\ d.ok }

(* C32 -- copy scans the source only: the destination is never scanned, and
   copy returns Ok whenever the scan of the src root succeeds, also when
   nothing is at the dest root when it is called.  In that case the dest
   root exists afterwards exactly when src holds a subdirectory: it appears
   only with a successful directory copy, and without one every file and
   symlink copy fails and nothing is created. *)
C32_CopyWithoutDest ==
    op = "copy"
        => /\ dest_file_sets = NoSets
           /\ Returned /\ ~ScanFails("src") => result = "Ok"
           /\ fs0["dest"][RootPath] = None
                => /\ fs["dest"][RootPath] # None => DirsCreated # {}
                   /\ result = "Ok"
                        => /\ fs["dest"][RootPath] = DirE <=> src_file_sets.dirs # {}
                           /\ src_file_sets.dirs = {}
                                => fs = fs0 /\ \A d \in done : ~d.ok

\* copy has returned Ok into a dest that was not there: the root came with
\* the copy of a src directory, and a file was copied below it
C32_Witness ==
    /\ op = "copy"
    /\ result = "Ok"
    /\ fs0["dest"][RootPath] = None
    /\ fs["dest"][RootPath] = DirE
    /\ \E d \in done : d.act = "copy" /\ d.file.type = "file" /\ d.ok

---------------------------------------------------------------------------
\* the regular files with mode 000 that the scan of root r comes to
UnreadableFiles(r) == { p \in Reached(r) : fs0[r][p].kind = "file" /\ <<r, p>> \in noperm0 }

(* C33 -- When the scan comes to a subdirectory it cannot read, it has
   recorded that subdirectory as a directory entry and records nothing that
   lies below it; a regular file that cannot be read is recorded as a file
   entry with its size like any other, the scan reading its metadata only. *)
C33_UnreadableRecorded ==
    run = 1
        => \A r \in Roots :
             ScanOf(r).ok
                 => /\ \A p \in Unreadable(r) :
                         /\ Dir(p) \in ScanOf(r).dirs
                         /\ \A q \in ScannedPaths(ScanOf(r)) : IsPrefix(p, q) => q = p
                    /\ \A p \in UnreadableFiles(r) :
                         File(p, Len(fs0[r][p].data)) \in ScanOf(r).files

\* synchronize has scanned a src with a mode-000 subdirectory that holds a
\* file: the subdirectory is in the directory set, the file in no set
C33_Witness ==
    /\ op = "synchronize"
    /\ run = 1
    /\ src_file_sets.ok
    /\ \E p \in Unreadable("src") :
         /\ Dir(p) \in src_file_sets.dirs
         /\ \E c \in Children(p) : fs0["src"][c].kind = "file"
                                     /\ c \notin ScannedPaths(src_file_sets)

---------------------------------------------------------------------------
\* both scans of synchronize recorded everything below their roots
ScansComplete == Skipped("src", src_file_sets) = {} /\ Skipped("dest", dest_file_sets) = {}

\* no operation of the run has failed so far
NothingFailed == \A d \in done : d.act = "compare" \/ d.ok

(* C34 -- In synchronize with deletion enabled and both scans complete, a
   directory of D.dirs - S.dirs whose remove is executed after nothing but
   successful operations is empty at that moment, and its remove succeeds:
   by induction over the sorted pass every directory remove succeeds when
   no delete of a file or symlink and no copy has failed. *)
C34_DirsEmptyAtRemove ==
    /\ [][(op = "synchronize" /\ "NoDelete" \notin flags /\ ScansComplete /\ NothingFailed)
            => \A d \in DirRemovesCompleted :
                 /\ fs["dest"][d.file.path] = DirE
                 /\ ~NonEmpty(fs["dest"], d.file.path)
                 /\ d.ok
                 /\ fs'["dest"][d.file.path] = None]_vars
    /\ []((op = "synchronize" /\ "NoDelete" \notin flags /\ ScansComplete
            /\ \A d \in done : (d.act \in {"copy", "overwrite"}
                                  \/ (d.act = "remove" /\ d.file.type # "dir")) => d.ok)
           => \A d \in done : d.act = "remove" => d.ok)

\* synchronize has returned after deleting a file and then, child first,
\* the two nested directories above it, every operation successful
C34_Witness ==
    /\ op = "synchronize"
    /\ "NoDelete" \notin flags
    /\ result = "Ok"
    /\ NothingFailed
    /\ Len(removed) = 2
    /\ Parent(removed[1].path) = removed[2].path
    /\ \E d \in done : d.act = "remove" /\ d.file.type = "file"
                         /\ Parent(d.file.path) = removed[1].path
    /\ Existing(fs["dest"]) = {}

---------------------------------------------------------------------------
\* a per-entry operation has been entered
AnythingStarted == running # {} \/ done # {} \/ removed # << >>

(* C35 -- synchronize makes both scans before any operation: an operation
   is entered only when the scans of src and of dest have both succeeded,
   and when one of them fails synchronize returns the error with both
   trees, mode bits included, as they were when it was called: nothing
   was deleted, copied or created, and the counter is untouched. *)
C35_ScansBeforeOperations ==
    op = "synchronize"
        => /\ AnythingStarted => src_file_sets.ok /\ dest_file_sets.ok
           /\ Returned /\ (ScanFails("src") \/ ScanFails("dest")) => result = "Err"
           /\ result = "Err"
                => /\ ~AnythingStarted
                   /\ fs = fs0
                   /\ noperm = noperm0
                   /\ PROGRESS_BAR = 0

\* synchronize has returned Err from the scan of dest, after a scan of src
\* that found entries to copy, and nothing has been done
C35_Witness ==
    /\ op = "synchronize"
    /\ result = "Err"
    /\ src_file_sets.ok
    /\ src_file_sets.dirs # {}
    /\ ScanFails("dest")
    /\ fs = fs0

---------------------------------------------------------------------------
(* C36 -- synchronize and copy never modify the source: src and dest being
   two trees of which neither reaches into the other, every delete, every
   creation of a directory or symlink and every file write is made below the
   dest root, and the src tree with its mode bits is at every moment what it
   was when the operation was called. *)
C36_SourceUntouched ==
    op \in {"synchronize", "copy"}
        => /\ fs["src"] = fs0["src"]
           /\ NoPermOf(noperm, "src") = NoPermOf(noperm0, "src")

\* synchronize has returned after a successful delete and a successful
\* copy that changed dest, src being what it was
C36_Witness ==
    /\ op = "synchronize"
    /\ result = "Ok"
    /\ \E d \in done : d.act = "remove" /\ d.ok
    /\ \E d \in done : d.act \in {"copy", "overwrite"} /\ d.ok
    /\ fs["dest"] # fs0["dest"]
    /\ fs["src"] = fs0["src"]
    /\ Existing(fs["src"]) # {}

---------------------------------------------------------------------------
\* the paths that lie below p, p itself excluded
StrictlyBelow(p) == { q \in Paths : IsPrefix(p, q) /\ q # p }

\* the dest entries synchronize hands to a delete call
Doomed ==
    ToDelete \cup (dest_file_sets.dirs \ src_file_sets.dirs)

(* C37 -- What the scan of src skipped counts as absent from src.  When a
   src subdirectory d cannot be read, d itself is in the src collection and
   nothing below it is; synchronize with deletion enabled hands every dest
   entry below d to a delete call, whether or not src holds the same entry;
   and it returns Ok with the dest directory d still there and nothing left
   below it. *)
C37_SkippedCountsAsAbsent ==
    (op = "synchronize" /\ "NoDelete" \notin flags /\ run = 1)
        => /\ Returned /\ ~ScanFails("src") /\ ~ScanFails("dest") => result = "Ok"
           /\ \A d \in Unreadable("src") :
                /\ src_file_sets.ok
                     => /\ Dir(d) \in src_file_sets.dirs
                        /\ ScannedPaths(src_file_sets) \cap StrictlyBelow(d) = {}
                /\ src_file_sets.ok /\ dest_file_sets.ok
                     => \A f \in dest_file_sets.files \cup dest_file_sets.dirs
                                  \cup dest_file_sets.symlinks :
                          f.path \in StrictlyBelow(d) => f \in Doomed
                /\ result = "Ok" /\ fs0["dest"][d] = DirE
                     => /\ fs["dest"][d] = DirE
                        /\ \A q \in StrictlyBelow(d) : fs["dest"][q] = None

\* synchronize has returned Ok from a src with an unreadable directory:
\* dest held below it a file that src holds too, byte for byte, and the
\* file is gone while the directory is still there
C37_Witness ==
    /\ op = "synchronize"
    /\ "NoDelete" \notin flags
    /\ run = 1
    /\ result = "Ok"
    /\ \E d \in Unreadable("src") :
         /\ fs["dest"][d] = DirE
         /\ \E q \in StrictlyBelow(d) :
              /\ fs0["dest"][q].kind = "file"
              /\ fs0["src"][q] = fs0["dest"][q]
              /\ fs["dest"][q] = None

---------------------------------------------------------------------------
\* the pairs <<s, o>> of a src symlink and a dest symlink that the scans
\* recorded at one path with different targets
LinkPairs ==
    { x \in src_file_sets.symlinks \X dest_file_sets.symlinks :
        x[1].path = x[2].path /\ x[1].target # x[2].target }

(* C38 -- With NoDelete set, a dest symlink whose target differs from that
   of the src symlink at the same path is not replaced: nothing is deleted
   in the run, the copy of the src symlink to the occupied path fails, the
   dest link holds its old target throughout and after the run, and
   synchronize returns Ok. *)
C38_NoDeleteKeepsOldLink ==
    (op = "synchronize" /\ "NoDelete" \in flags)
        => /\ \A d \in done : d.act # "remove"
           /\ removed = << >>
           /\ Returned /\ ~ScanFails("src") /\ ~ScanFails("dest") => result = "Ok"
           /\ \A x \in LinkPairs :
                /\ fs["dest"][x[1].path] = LinkE(x[2].target)
                /\ \A d \in done : (d.act = "copy" /\ d.file = x[1]) => ~d.ok
                /\ result = "Ok" => \E d \in done : d.act = "copy" /\ d.file = x[1]

\* synchronize with NoDelete has returned Ok, the copy of a retargeted src
\* symlink has failed and dest holds the old link
C38_Witness ==
    /\ op = "synchronize"
    /\ "NoDelete" \in flags
    /\ result = "Ok"
    /\ \E x \in LinkPairs :
         /\ [act |-> "copy", file |-> x[1], ok |-> FALSE] \in done
         /\ fs["dest"][x[1].path] = LinkE(x[2].target)
         /\ fs["src"][x[1].path] = LinkE(x[1].target)

---------------------------------------------------------------------------
(* The command line's rm TARGET... (main.rs:36-55, parse.rs:76-115).  The  *)
(* two directories of the model are what the targets name; a target may    *)
(* be given more than once.                                                *)

\* the TARGET values of the command line
TargetLists == UNION { [1..n -> Roots] : n \in 1..MaxTargets }

\* main is about to parse the arguments of rm
InitMain ==
    /\ op = "remove"
    /\ flags \in SUBSET {"Sequential"}
    /\ fs \in InitTrees("copy", MaxFaultEntries)
    /\ noperm \in { N \in SUBSET ModeCarriers(fs) : Cardinality(N) <= MaxNoPerm }
    /\ main \in { [args |-> a, dest |-> a, next |-> 0, results |-> << >>, exit |-> "none"] :
                    a \in TargetLists }
    /\ pc = 0
    /\ src_file_sets = NoSets
    /\ dest_file_sets = NoSets
    /\ pending = {}
    /\ running = {}
    /\ dirs_to_delete = << >>
    /\ done = {}
    /\ removed = << >>
    /\ run = 1
    /\ fs0 = fs
    /\ noperm0 = noperm
    /\ PROGRESS_BAR = 0
    /\ result = "none"

\* fs::metadata(dest) is Ok and m.is_dir() (parse.rs:98-103)
is_dir(F, r) == F[r][RootPath] = DirE

\* parse.rs:96-110: the targets that are directories, in the order given
retain(F, dest) == LET valid(r) == is_dir(F, r) IN SelectSeq(dest, valid)

\* parse_args of rm: the targets are validated; with none left parse_args
\* returns Err and main exits with status 1 (main.rs:18-21)
parse_args ==
    /\ main.next = 0
    /\ main.exit = "none"
    /\ main.args # << >>
    /\ LET dest == retain(fs, main.dest)
       IN main' = IF dest = << >>
                  THEN [main EXCEPT !.dest = dest, !.exit = "1"]
                  ELSE [main EXCEPT !.dest = dest, !.next = 1]
    /\ UNCHANGED <<fs, noperm, op, flags, pc, src_file_sets, dest_file_sets, pending,
                   running, dirs_to_delete, done, removed, run, fs0, noperm0,
                   PROGRESS_BAR, result>>

\* core::remove(target, flags) from call to return, target being the root r:
\* what it returns, the tree it leaves, and the steps of the progress bar
remove_target(F, N, r, fl) ==
    LET F2 == [x \in Roots |-> IF x = "dest" THEN F[r] ELSE AbsentTree]
        N2 == { <<"dest", p>> : p \in NoPermOf(N, r) }
        D == get_all_files(F2["dest"], NoPermOf(N2, "dest"), Location("dest"))
    IN [result |-> IF D.ok THEN "Ok" ELSE "Err",
        t |-> RunProgram("remove", fl, F2, N2, NoSets, NoSets, 1)["dest"],
        inc |-> IF D.ok THEN Cardinality(D.files \cup D.dirs \cup D.symlinks) + 1 ELSE 0]

\* the Results the map has yielded so far hold no Err
NoErrYet == \A i \in 1..Len(main.results) : main.results[i] = "Ok"

\* a map that is run to its end before the Results are looked at, as when
\* they are collected into a vector first
CallRemove_continuing ==
    /\ main.exit = "none"
    /\ main.next \in 1..Len(main.dest)
    /\ \E r \in {main.dest[main.next]} : \E o \in {remove_target(fs, noperm, r, flags)} :
          /\ fs' = [fs EXCEPT ![r] = o.t]
          /\ noperm' = Prune(noperm, fs')
          /\ result' = o.result
          /\ PROGRESS_BAR' = PROGRESS_BAR + o.inc
          /\ main' = [main EXCEPT !.results = Append(@, o.result), !.next = @ + 1]
    /\ UNCHANGED <<op, flags, pc, src_file_sets, dest_file_sets, pending,
                   running, dirs_to_delete, done, removed, run, fs0, noperm0>>

\* main.rs:38-42: collect() takes the next Result from the map, whose closure
\* calls core::remove on the next target; it takes no more after an Err
CallRemove ==
    /\ main.exit = "none"
    /\ main.next \in 1..Len(main.dest)
    /\ NoErrYet
    /\ \E r \in {main.dest[main.next]} : \E o \in {remove_target(fs, noperm, r, flags)} :
          /\ fs' = [fs EXCEPT ![r] = o.t]
          /\ noperm' = Prune(noperm, fs')
          /\ result' = o.result
          /\ PROGRESS_BAR' = PROGRESS_BAR + o.inc
          /\ main' = [main EXCEPT !.results = Append(@, o.result),
                                  !.next = IF o.result = "Ok" THEN @ + 1 ELSE @]
    /\ UNCHANGED <<op, flags, pc, src_file_sets, dest_file_sets, pending,
                   running, dirs_to_delete, done, removed, run, fs0, noperm0>>

\* main.rs:48-55: the bar is cleared; exit(1) on an Err, else main returns
Exit ==
    /\ main.exit = "none"
    /\ main.next >= 1
    /\ \/ /\ ~NoErrYet
          /\ main' = [main EXCEPT !.exit = "1"]
       \/ /\ NoErrYet
          /\ main.next > Len(main.dest)
          /\ main' = [main EXCEPT !.exit = "0"]
    /\ PROGRESS_BAR' = 0
    /\ UNCHANGED <<fs, noperm, op, flags, pc, src_file_sets, dest_file_sets, pending,
                   running, dirs_to_delete, done, removed, run, fs0, noperm0, result>>

NextMain == parse_args \/ CallRemove \/ Exit

\* lms rm TARGET... on directories with permission faults
SpecMain == InitMain /\ [][NextMain]_vars

\* the targets core::remove has been called on, in the order of the calls
Called == SubSeq(main.dest, 1, Len(main.results))

(* C39 -- rm with several targets.  The targets that are directories are
   kept in the order given; core::remove is called on them one after
   another in that order, and on none after the first call that returned
   Err.  Then every target called before it returned Ok (and is gone
   altogether when nothing in it had mode 000), a directory that no call
   was made on is as it was, and the exit status is 1; the status is 0 only
   when every validated target was called and returned Ok. *)
C39_RemoveStopsAtFirstError ==
    main.next >= 1
        => /\ main.dest = retain(fs0, main.args)
           /\ Len(main.results) <= Len(main.dest)
           /\ \A i \in 1..(Len(main.results) - 1) : main.results[i] = "Ok"
           /\ main.next = (IF NoErrYet THEN Len(main.results) + 1 ELSE Len(main.results))
           /\ \A i \in 1..Len(Called) :
                (main.results[i] = "Ok" /\ NoPermOf(noperm0, Called[i]) = {})
                    => fs[Called[i]] = AbsentTree
           /\ \A r \in Roots :
                (\A i \in 1..Len(Called) : Called[i] # r) => fs[r] = fs0[r]
           /\ main.exit = "0" => NoErrYet /\ Len(main.results) = Len(main.dest)
           /\ main.exit = "1" => ~NoErrYet
           /\ ~NoErrYet => main.exit \in {"none", "1"}

\* rm was given three targets, the first of them twice: the first call
\* removed it, the second returned Err, the third target was not touched
\* and the exit status is 1
C39_Witness ==
    /\ main.exit = "1"
    /\ main.results = <<"Ok", "Err">>
    /\ Len(main.dest) = 3
    /\ main.dest[3] # main.dest[1]
    /\ fs[main.dest[1]] = AbsentTree
    /\ Existing(fs[main.dest[3]]) # {}
    /\ fs[main.dest[3]] = fs0[main.dest[3]]

====
